---- MODULE Spec2Model ----
(***************************************************************************)
(* Discrepancy detection and resolution workflow of apni-zameen.           *)
(*                                                                         *)
(* The committed store holds Parcels, current LandRecords, Discrepancy     *)
(* rows and the ChangeLog (audit ledger).  Every request works through its *)
(* own SQLAlchemy session created with autoflush=False: objects added to   *)
(* the session are invisible to its queries until commit, attributes set   *)
(* on loaded objects are visible through the identity map.                 *)
(***************************************************************************)
EXTENDS Integers, Sequences, FiniteSets, TLC

\* ---------------------------------------------------------------- bounds
MaxDisc == 4          \* rows the discrepancies table may hold
MaxBulk == 2          \* ids in one bulk_transition request

NoneVal == "None"     \* an absent string / reference
NoNum == -1           \* an absent number

\* ------------------------------------------------------- configuration
area_tolerance_minor == 5
area_tolerance_major == 15
name_similarity_threshold == 80

\* ------------------------------------------------------------ universe
Villages == {"V1", "V2"}
VillageFilters == {NoneVal} \cup Villages

\* plot ids are strings "<village prefix>/<n>"; v is the prefix LIKE matches
Plot1 == [v |-> "V1", n |-> 1]
Plot2 == [v |-> "V1", n |-> 2]

CandParcels ==
  << [id |-> 1, plot_id |-> Plot1, village_code |-> "V1", computed_area_sqm |-> 100],
     [id |-> 2, plot_id |-> Plot2, village_code |-> "V2", computed_area_sqm |-> 100] >>

\* name_sim is the similarity compare_names(owner_name_hindi, None, None,
\* owner_name_english) yields for the record, NoNum when a name is absent
CandRecords ==
  << [id |-> 1, plot_id |-> Plot1, recorded_area_sqm |-> 80, name_sim |-> NoNum,
      is_current |-> TRUE, version |-> 1, previous_version_id |-> 0],
     [id |-> 2, plot_id |-> Plot1, recorded_area_sqm |-> 50, name_sim |-> NoNum,
      is_current |-> TRUE, version |-> 1, previous_version_id |-> 0],
     [id |-> 3, plot_id |-> Plot2, recorded_area_sqm |-> 100, name_sim |-> NoNum,
      is_current |-> TRUE, version |-> 1, previous_version_id |-> 0] >>

RECURSIVE FilterSeq(_, _)
FilterSeq(s, keep) ==
  IF s = << >> THEN << >>
  ELSE (IF Head(s).id \in keep THEN << Head(s) >> ELSE << >>) \o FilterSeq(Tail(s), keep)

Abs(x) == IF x < 0 THEN -x ELSE x
Min(a, b) == IF a < b THEN a ELSE b
Max(a, b) == IF a > b THEN a ELSE b

\* ------------------------------------------------------ severity scoring
SCORING_WEIGHTS ==
  [ area_critical_mismatch |-> 40, area_major_mismatch |-> 25, area_minor_mismatch |-> 10,
    name_no_match |-> 30, name_partial_match |-> 15, name_likely_match |-> 5,
    missing_parcel_geometry |-> 25, missing_ownership_record |-> 25,
    missing_father_name |-> 5, missing_area_value |-> 10,
    duplicate_plot_id |-> 35, overlapping_geometry |-> 30,
    repeated_discrepancy |-> 15, recently_resolved |-> -10 ]

\* diff_percent > k, with diff_percent = |computed - recorded| / recorded * 100
DiffPercentGt(computed, recorded, k) == Abs(computed - recorded) * 100 > k * recorded

calculate_area_score(computed_sqm, recorded_sqm) ==
  IF computed_sqm = NoNum \/ recorded_sqm = NoNum THEN SCORING_WEIGHTS.missing_area_value
  ELSE IF recorded_sqm = 0 THEN SCORING_WEIGHTS.area_critical_mismatch
  ELSE IF DiffPercentGt(computed_sqm, recorded_sqm, 25) THEN SCORING_WEIGHTS.area_critical_mismatch
  ELSE IF DiffPercentGt(computed_sqm, recorded_sqm, 10) THEN SCORING_WEIGHTS.area_major_mismatch
  ELSE IF DiffPercentGt(computed_sqm, recorded_sqm, 5) THEN SCORING_WEIGHTS.area_minor_mismatch
  ELSE 0

calculate_name_score(similarity_percent) ==
  IF similarity_percent < 50 THEN SCORING_WEIGHTS.name_no_match
  ELSE IF similarity_percent < 80 THEN SCORING_WEIGHTS.name_partial_match
  ELSE IF similarity_percent < 95 THEN SCORING_WEIGHTS.name_likely_match
  ELSE 0

calculate_completeness_score(has_geometry, has_record, has_father_name, has_area_values) ==
    (IF ~has_geometry THEN SCORING_WEIGHTS.missing_parcel_geometry ELSE 0)
  + (IF ~has_record THEN SCORING_WEIGHTS.missing_ownership_record ELSE 0)
  + (IF ~has_father_name THEN SCORING_WEIGHTS.missing_father_name ELSE 0)
  + (IF ~has_area_values THEN SCORING_WEIGHTS.missing_area_value ELSE 0)

SeverityOf(total_score) ==
  IF total_score >= 80 THEN "critical"
  ELSE IF total_score >= 50 THEN "major"
  ELSE "minor"

\* variant: the sum of the factors is returned as it is
compute_severity_score_unclamped(discrepancy_type, area_computed, area_recorded, name_similarity, has_geometry, has_record, has_father_name, previous_occurrences, was_resolved_before) ==
  LET typeScore ==
        CASE discrepancy_type = "area_mismatch" -> calculate_area_score(area_computed, area_recorded)
          [] discrepancy_type = "name_mismatch" ->
               IF name_similarity # NoNum THEN calculate_name_score(name_similarity) ELSE 0
          [] discrepancy_type = "missing_record" -> SCORING_WEIGHTS.missing_ownership_record
          [] discrepancy_type = "missing_parcel" -> SCORING_WEIGHTS.missing_parcel_geometry
          [] discrepancy_type = "duplicate_record" -> SCORING_WEIGHTS.duplicate_plot_id
          [] discrepancy_type = "duplicate_parcel" -> SCORING_WEIGHTS.overlapping_geometry
          [] OTHER -> 0
      comp == calculate_completeness_score(has_geometry, has_record, has_father_name,
                area_computed # NoNum /\ area_recorded # NoNum)
      repeat == IF previous_occurrences > 0
                THEN Min(SCORING_WEIGHTS.repeated_discrepancy, previous_occurrences * 5)
                ELSE 0
      resolved == IF was_resolved_before THEN SCORING_WEIGHTS.recently_resolved ELSE 0
      total == typeScore + comp + repeat + resolved
  IN [total_score |-> total, severity |-> SeverityOf(total), repeated |-> repeat]

compute_severity_score(discrepancy_type, area_computed, area_recorded, name_similarity, has_geometry, has_record, has_father_name, previous_occurrences, was_resolved_before) ==
  LET typeScore ==
        CASE discrepancy_type = "area_mismatch" -> calculate_area_score(area_computed, area_recorded)
          [] discrepancy_type = "name_mismatch" ->
               IF name_similarity # NoNum THEN calculate_name_score(name_similarity) ELSE 0
          [] discrepancy_type = "missing_record" -> SCORING_WEIGHTS.missing_ownership_record
          [] discrepancy_type = "missing_parcel" -> SCORING_WEIGHTS.missing_parcel_geometry
          [] discrepancy_type = "duplicate_record" -> SCORING_WEIGHTS.duplicate_plot_id
          [] discrepancy_type = "duplicate_parcel" -> SCORING_WEIGHTS.overlapping_geometry
          [] OTHER -> 0
      comp == calculate_completeness_score(has_geometry, has_record, has_father_name,
                area_computed # NoNum /\ area_recorded # NoNum)
      repeat == IF previous_occurrences > 0
                THEN Min(SCORING_WEIGHTS.repeated_discrepancy, previous_occurrences * 5)
                ELSE 0
      resolved == IF was_resolved_before THEN SCORING_WEIGHTS.recently_resolved ELSE 0
      total == Max(0, Min(100, typeScore + comp + repeat + resolved))
  IN [total_score |-> total, severity |-> SeverityOf(total), repeated |-> repeat]

\* ------------------------------------------------------------- state
VARIABLES
  parcels,        \* Seq of Parcel rows (committed)
  records,        \* Seq of LandRecord rows with is_current = True (committed)
  discrepancies,  \* Seq of Discrepancy rows (committed); a row's id is its index
  change_logs,    \* Seq of ChangeLog rows (committed), in insertion order
  last,           \* the request being served and what it returned
  runs            \* detection sessions that have read and not yet committed

vars == << parcels, records, discrepancies, change_logs, last, runs >>

OpenStatuses == {"open", "under_review"}

\* ------------------------------------------------- detection: verdicts
Truthy(x) == x # NoNum /\ x # 0

Verdict(type, plot_id, parcel_id, record_id, sc) ==
  [type |-> type, plot_id |-> plot_id, parcel_id |-> parcel_id, record_id |-> record_id,
   severity |-> sc.severity, score |-> sc.total_score]

_check_area_enhanced(parcel, record) ==
  LET computed == parcel.computed_area_sqm
      recorded == record.recorded_area_sqm
  IN IF ~Truthy(computed) \/ ~Truthy(recorded) THEN << >>
     ELSE IF ~DiffPercentGt(computed, recorded, area_tolerance_minor) THEN << >>
     ELSE << Verdict("area_mismatch", parcel.plot_id, parcel.id, record.id,
               compute_severity_score("area_mismatch", computed, recorded, NoNum,
                                      TRUE, TRUE, TRUE, 0, FALSE)) >>

_check_name_enhanced(parcel, record) ==
  IF record.name_sim # NoNum /\ record.name_sim < name_similarity_threshold
  THEN << Verdict("name_mismatch", parcel.plot_id, parcel.id, record.id,
            compute_severity_score("name_mismatch", NoNum, NoNum, record.name_sim,
                                   TRUE, TRUE, TRUE, 0, FALSE)) >>
  ELSE << >>

RECURSIVE CheckRecords(_, _)
CheckRecords(parcel, recs) ==
  IF recs = << >> THEN << >>
  ELSE (IF Truthy(parcel.computed_area_sqm) /\ Truthy(Head(recs).recorded_area_sqm)
        THEN _check_area_enhanced(parcel, Head(recs)) ELSE << >>)
       \o _check_name_enhanced(parcel, Head(recs))
       \o CheckRecords(parcel, Tail(recs))

\* variant: a parcel without records yields no verdict
_check_parcel_enhanced_silent(parcel, recs) ==
  IF recs = << >> THEN << >> ELSE CheckRecords(parcel, recs)

_check_parcel_enhanced(parcel, recs) ==
  IF recs = << >>
  THEN << Verdict("missing_record", parcel.plot_id, parcel.id, 0,
            compute_severity_score("missing_record", NoNum, NoNum, NoNum,
                                   TRUE, FALSE, TRUE, 0, FALSE)) >>
  ELSE CheckRecords(parcel, recs)

_create_missing_parcel_discrepancy(record) ==
  Verdict("missing_parcel", record.plot_id, 0, record.id,
    compute_severity_score("missing_parcel", NoNum, NoNum, NoNum,
                           FALSE, TRUE, TRUE, 0, FALSE))

RECURSIVE RecsOfPlot(_, _)
RecsOfPlot(recs, plot_id) ==
  IF recs = << >> THEN << >>
  ELSE (IF Head(recs).plot_id = plot_id THEN << Head(recs) >> ELSE << >>)
       \o RecsOfPlot(Tail(recs), plot_id)

\* keys of records_by_plot, in dict insertion order
RECURSIVE PlotOrder(_, _)
PlotOrder(recs, seen) ==
  IF recs = << >> THEN << >>
  ELSE IF Head(recs).plot_id \in seen THEN PlotOrder(Tail(recs), seen)
  ELSE << Head(recs).plot_id >> \o PlotOrder(Tail(recs), seen \cup {Head(recs).plot_id})

ParcelQuery(village_code) ==
  IF village_code = NoneVal THEN parcels
  ELSE SelectSeq(parcels, LAMBDA p : p.village_code = village_code)

RecordQuery(village_code) ==
  IF village_code = NoneVal THEN SelectSeq(records, LAMBDA r : r.is_current)
  ELSE SelectSeq(records, LAMBDA r : r.is_current /\ r.plot_id.v = village_code)

\* the verdicts of one run, in the order run_detection upserts them; counted
\* tells whether the loop adds an 'updated' result to the statistics
Tag(vs, counted) == [i \in 1..Len(vs) |-> [v |-> vs[i], counted |-> counted]]

RECURSIVE ParcelVerdicts(_, _)
ParcelVerdicts(ps, recs) ==
  IF ps = << >> THEN << >>
  ELSE _check_parcel_enhanced(Head(ps), RecsOfPlot(recs, Head(ps).plot_id))
       \o ParcelVerdicts(Tail(ps), recs)

RECURSIVE MissingParcelOf(_)
MissingParcelOf(recs) ==
  IF recs = << >> THEN << >>
  ELSE << _create_missing_parcel_discrepancy(Head(recs)) >> \o MissingParcelOf(Tail(recs))

RECURSIVE OrphanVerdicts(_, _, _)
OrphanVerdicts(plots, recs, parcel_plots) ==
  IF plots = << >> THEN << >>
  ELSE (IF Head(plots) \notin parcel_plots
        THEN MissingParcelOf(RecsOfPlot(recs, Head(plots))) ELSE << >>)
       \o OrphanVerdicts(Tail(plots), recs, parcel_plots)

RECURSIVE _check_duplicates(_, _)
_check_duplicates(plots, recs) ==
  IF plots = << >> THEN << >>
  ELSE (LET rec_list == RecsOfPlot(recs, Head(plots))
        IN IF Len(rec_list) > 1
           THEN << Verdict("duplicate_record", Head(plots), 0, rec_list[1].id,
                     compute_severity_score("duplicate_record", NoNum, NoNum, NoNum,
                                            TRUE, TRUE, TRUE, 0, FALSE)) >>
           ELSE << >>)
       \o _check_duplicates(Tail(plots), recs)

RunVerdicts(village_code) ==
  LET ps == ParcelQuery(village_code)
      recs == RecordQuery(village_code)
      plots == PlotOrder(recs, {})
      parcel_plots == {ps[i].plot_id : i \in 1..Len(ps)}
  IN Tag(ParcelVerdicts(ps, recs), TRUE)
     \o Tag(OrphanVerdicts(plots, recs, parcel_plots), FALSE)
     \o Tag(_check_duplicates(plots, recs), FALSE)

\* --------------------------------------------------- detection: upsert
\* details tells whether the details text parses as JSON: both engines write it
\* with json.dumps ("json"); score is the number stored under 'score' in it,
\* NoNum when the text holds none
NewDiscrepancy(v) ==
  [plot_id |-> v.plot_id, discrepancy_type |-> v.type, status |-> "open",
   severity |-> v.severity, score |-> v.score,
   parcel_id |-> v.parcel_id, record_id |-> v.record_id,
   resolved_by |-> NoneVal, resolved_at |-> NoneVal, resolution_remarks |-> NoneVal,
   details |-> "json"]

\* rows the SELECT of _create_or_update_discrepancy matches.  The statement
\* runs against the committed table: with autoflush=False the objects the
\* session has added are not flushed and so are not found.
ExistingMatches(table, v) ==
  {i \in 1..Len(table) : /\ table[i].plot_id = v.plot_id
                         /\ table[i].discrepancy_type = v.type
                         /\ table[i].status \in OpenStatuses}

\* details_dict.get('score', 0): a row whose details carry no score (score = NoNum)
\* counts as score 0
StoredScore(row) == IF row.score = NoNum THEN 0 ELSE row.score

\* variant: a score difference of exactly 5 already counts as a change
_create_or_update_discrepancy_ge5(sess, tv) ==
  LET v == tv.v
      m == ExistingMatches(sess.table, v)
  IN IF m # {}
     THEN { IF sess.rows[i].details = "corrupt"
            THEN [sess EXCEPT !.error = "JSONDecodeError"]
            ELSE IF Abs(StoredScore(sess.rows[i]) - v.score) >= 5
            THEN [sess EXCEPT !.rows[i].severity = v.severity,
                              !.rows[i].score = v.score,
                              !.modified = @ + 1,
                              !.updated = IF tv.counted THEN @ + 1 ELSE @]
            ELSE sess
          : i \in m }
     ELSE { [sess EXCEPT !.pending = Append(@, NewDiscrepancy(v)), !.new = @ + 1] }

\* variant: an update puts the entry back to open
_create_or_update_discrepancy_reopens(sess, tv) ==
  LET v == tv.v
      m == ExistingMatches(sess.table, v)
  IN IF m # {}
     THEN { IF sess.rows[i].details = "corrupt"
            THEN [sess EXCEPT !.error = "JSONDecodeError"]
            ELSE IF Abs(StoredScore(sess.rows[i]) - v.score) > 5
            THEN [sess EXCEPT !.rows[i].status = "open",
                              !.rows[i].severity = v.severity,
                              !.rows[i].score = v.score,
                              !.modified = @ + 1,
                              !.updated = IF tv.counted THEN @ + 1 ELSE @]
            ELSE sess
          : i \in m }
     ELSE { [sess EXCEPT !.pending = Append(@, NewDiscrepancy(v)), !.new = @ + 1] }

\* variant: an update rewrites the stored score and leaves the severity
_create_or_update_discrepancy_keeps_severity(sess, tv) ==
  LET v == tv.v
      m == ExistingMatches(sess.table, v)
  IN IF m # {}
     THEN { IF sess.rows[i].details = "corrupt"
            THEN [sess EXCEPT !.error = "JSONDecodeError"]
            ELSE IF Abs(StoredScore(sess.rows[i]) - v.score) > 5
            THEN [sess EXCEPT !.rows[i].score = v.score,
                              !.modified = @ + 1,
                              !.updated = IF tv.counted THEN @ + 1 ELSE @]
            ELSE sess
          : i \in m }
     ELSE { [sess EXCEPT !.pending = Append(@, NewDiscrepancy(v)), !.new = @ + 1] }

\* a detection session: rows = the loaded rows as the identity map holds them,
\* pending = objects added and not flushed, error = the exception that left
\* the run. json.loads(existing.details) raises on a details text that is not
\* JSON; run_detection has no try around the call
\* .first() has no ORDER BY: any matching row may be the one returned
_create_or_update_discrepancy(sess, tv) ==
  LET v == tv.v
      m == ExistingMatches(sess.table, v)
  IN IF m # {}
     THEN { IF sess.rows[i].details = "corrupt"
            THEN [sess EXCEPT !.error = "JSONDecodeError"]
            ELSE IF Abs(StoredScore(sess.rows[i]) - v.score) > 5
            THEN [sess EXCEPT !.rows[i].severity = v.severity,
                              !.rows[i].score = v.score,
                              !.modified = @ + 1,
                              !.updated = IF tv.counted THEN @ + 1 ELSE @]
            ELSE sess
          : i \in m }
     ELSE { [sess EXCEPT !.pending = Append(@, NewDiscrepancy(v)), !.new = @ + 1] }

RECURSIVE UpsertAll(_, _)
UpsertAll(sess, tvs) ==
  IF tvs = << >> \/ sess.error # NoneVal THEN {sess}
  ELSE UNION { UpsertAll(s2, Tail(tvs)) : s2 \in _create_or_update_discrepancy(sess, Head(tvs)) }

\* run_detection up to its commit: the sessions it can end in
run_detection(table, village_code) ==
  UpsertAll([table |-> table, rows |-> table, pending |-> << >>,
             new |-> 0, updated |-> 0, modified |-> 0, error |-> NoneVal],
            RunVerdicts(village_code))

\* db.commit(): an UPDATE of the columns the session changed for each row it
\* modified, an INSERT for each pending object
CommitDetection(table, sess) ==
  [i \in 1..Len(table) |->
     IF i <= Len(sess.table) /\ sess.rows[i] # sess.table[i]
     THEN [f \in DOMAIN table[i] |->
             IF sess.rows[i][f] # sess.table[i][f] THEN sess.rows[i][f] ELSE table[i][f]]
     ELSE table[i]]
  \o sess.pending

\* how run_detection leaves the table: the commit is its last statement, an
\* exception before it leaves the session uncommitted and get_db closes it
EndDetection(table, sess) ==
  IF sess.error # NoneVal THEN table ELSE CommitDetection(table, sess)

\* ------------------------------------------------------------ workflow
Statuses == {"open", "under_review", "resolved", "disputed", "ignored"}
Roles == {"operator", "supervisor", "admin", "viewer"}
UserName == "clerk"
Remarks == {NoneVal, "note"}

\* variant: the table also lets an ignored discrepancy be resolved directly
VALID_TRANSITIONS_ignored_resolved(current_status) ==
  CASE current_status = "open" -> {"under_review", "resolved", "ignored"}
    [] current_status = "under_review" -> {"open", "resolved", "disputed"}
    [] current_status = "resolved" -> {"open"}
    [] current_status = "disputed" -> {"under_review", "resolved"}
    [] current_status = "ignored" -> {"open", "resolved"}
    [] OTHER -> {}

VALID_TRANSITIONS(current_status) ==
  CASE current_status = "open" -> {"under_review", "resolved", "ignored"}
    [] current_status = "under_review" -> {"open", "resolved", "disputed"}
    [] current_status = "resolved" -> {"open"}
    [] current_status = "disputed" -> {"under_review", "resolved"}
    [] current_status = "ignored" -> {"open"}
    [] OTHER -> {}

TRANSITION_ROLES(old_status, new_status) ==
  CASE old_status = "open" /\ new_status = "under_review" -> {"operator", "supervisor", "admin"}
    [] old_status = "open" /\ new_status = "resolved" -> {"supervisor", "admin"}
    [] old_status = "open" /\ new_status = "ignored" -> {"supervisor", "admin"}
    [] old_status = "under_review" /\ new_status = "open" -> {"operator", "supervisor", "admin"}
    [] old_status = "under_review" /\ new_status = "resolved" -> {"supervisor", "admin"}
    [] old_status = "under_review" /\ new_status = "disputed" -> {"operator", "supervisor", "admin"}
    [] old_status = "resolved" /\ new_status = "open" -> {"admin"}
    [] old_status = "disputed" /\ new_status = "under_review" -> {"supervisor", "admin"}
    [] old_status = "disputed" /\ new_status = "resolved" -> {"admin"}
    [] old_status = "ignored" /\ new_status = "open" -> {"supervisor", "admin"}
    [] OTHER -> {"admin"}

\* variant: the role whitelist of the edge is not consulted
can_transition_no_role(current_status, new_status, user_role) ==
  IF new_status \notin VALID_TRANSITIONS(current_status) THEN FALSE
  ELSE TRUE

can_transition(current_status, new_status, user_role) ==
  IF new_status \notin VALID_TRANSITIONS(current_status) THEN FALSE
  ELSE IF user_role \notin TRANSITION_ROLES(current_status, new_status) THEN FALSE
  ELSE TRUE

\* ------------------------------------------------------------- ledger
\* the mapped attributes of the ChangeLog model
ChangeLogColumns ==
  {"id", "entity_type", "entity_id", "action", "old_values", "new_values",
   "user_name", "user_ip", "remarks", "timestamp"}

\* the keyword arguments log_change passes to ChangeLog(...)
LogChangeKwargs ==
  {"id", "entity_type", "entity_id", "action", "old_values", "new_values",
   "user_name", "user_role", "remarks", "ip_address", "timestamp"}

\* the declarative constructor raises TypeError for a keyword that is not an
\* attribute of the mapped class
ChangeLogAccepts(kwargs) == kwargs \subseteq ChangeLogColumns

\* a workflow session: table/logs = the committed tables, rows = the loaded
\* Discrepancy objects as the identity map holds them, pending_logs = ChangeLog
\* objects added and not flushed
WorkflowSession(table, logs) ==
  [table |-> table, logs |-> logs, rows |-> table, pending_logs |-> << >>]

\* variant: the entry the entity already has is overwritten with the new
\* change instead of a new entry being added
log_change_overwrites(sess, entity_type, entity_id, action, old_values, new_values, user_name, user_role, remarks) ==
  LET mine == {i \in 1..Len(sess.logs) : sess.logs[i].entity_id = entity_id}
  IN IF mine = {}
     THEN [raised |-> TRUE, sess |-> sess]
     ELSE [raised |-> FALSE,
           sess |-> [sess EXCEPT !.logs = [i \in 1..Len(sess.logs) |->
                       IF i \in mine
                       THEN [sess.logs[i] EXCEPT !.action = action, !.old_values = old_values,
                                                 !.new_values = new_values]
                       ELSE sess.logs[i]]]]

log_change(sess, entity_type, entity_id, action, old_values, new_values, user_name, user_role, remarks) ==
  IF ~ChangeLogAccepts(LogChangeKwargs)
  THEN [raised |-> TRUE, sess |-> sess]
  ELSE [raised |-> FALSE,
        sess |-> [sess EXCEPT !.pending_logs =
                    Append(@, [entity_type |-> entity_type, entity_id |-> entity_id,
                               action |-> action, old_values |-> old_values,
                               new_values |-> new_values, user_name |-> user_name,
                               user_role |-> user_role, remarks |-> remarks])]]

log_discrepancy_status_change(sess, discrepancy_id, old_status, new_status, user_name, user_role, remarks) ==
  log_change(sess, "discrepancy", discrepancy_id, "status_change",
             old_status, new_status, user_name, user_role, remarks)

\* db.commit() of a workflow session: dirty rows and pending logs are flushed
CommitWorkflow(sess) ==
  [sess EXCEPT !.table = sess.rows, !.logs = sess.logs \o sess.pending_logs,
               !.pending_logs = << >>]

\* what one call did: found = the row exists, before/after = its status in
\* the session before and after the call, result = how the call ended,
\* log_called = log_change was reached, dirty = the call changed an object of
\* the session
Item(id, sess, sess2, result, log_called) ==
  LET found == id \in 1..Len(sess.rows)
  IN [id |-> id, found |-> found,
      before |-> IF found THEN sess.rows[id].status ELSE NoneVal,
      after |-> IF found THEN sess2.rows[id].status ELSE NoneVal,
      result |-> result, log_called |-> log_called,
      dirty |-> sess2.rows # sess.rows]

\* variant: the status is committed before the change is logged
transition_status_commit_first(sess, discrepancy_id, new_status, user_name, user_role, remarks) ==
  IF discrepancy_id \notin 1..Len(sess.table)
  THEN [sess |-> sess, item |-> Item(discrepancy_id, sess, sess, "not_found", FALSE)]
  ELSE
    LET old_status == sess.rows[discrepancy_id].status
    IN IF ~can_transition(old_status, new_status, user_role)
       THEN [sess |-> sess, item |-> Item(discrepancy_id, sess, sess, "violation", FALSE)]
       ELSE
         LET s1 == [sess EXCEPT !.rows[discrepancy_id].status = new_status]
             s2 == CommitWorkflow(s1)
             lg == log_discrepancy_status_change(s2, discrepancy_id, old_status, new_status,
                                                 user_name, user_role, remarks)
         IN IF lg.raised
            THEN [sess |-> lg.sess,
                  item |-> Item(discrepancy_id, sess, lg.sess, "TypeError", TRUE)]
            ELSE [sess |-> CommitWorkflow(lg.sess),
                  item |-> Item(discrepancy_id, sess, lg.sess, "ok", TRUE)]

transition_status(sess, discrepancy_id, new_status, user_name, user_role, remarks) ==
  IF discrepancy_id \notin 1..Len(sess.table)
  THEN [sess |-> sess, item |-> Item(discrepancy_id, sess, sess, "not_found", FALSE)]
  ELSE
    LET old_status == sess.rows[discrepancy_id].status
    IN IF ~can_transition(old_status, new_status, user_role)
       THEN [sess |-> sess, item |-> Item(discrepancy_id, sess, sess, "violation", FALSE)]
       ELSE
         LET s1 == [sess EXCEPT !.rows[discrepancy_id].status = new_status]
             s2 == IF new_status = "resolved"
                   THEN [s1 EXCEPT !.rows[discrepancy_id].resolved_at = "stamped",
                                   !.rows[discrepancy_id].resolved_by = user_name,
                                   !.rows[discrepancy_id].resolution_remarks =
                                       IF remarks # NoneVal THEN remarks ELSE @]
                   ELSE s1
             lg == log_discrepancy_status_change(s2, discrepancy_id, old_status, new_status,
                                                 user_name, user_role, remarks)
         IN IF lg.raised
            THEN [sess |-> lg.sess,
                  item |-> Item(discrepancy_id, sess, lg.sess, "TypeError", TRUE)]
            ELSE [sess |-> CommitWorkflow(lg.sess),
                  item |-> Item(discrepancy_id, sess, lg.sess, "ok", TRUE)]

NoStats == [success |-> 0, failed |-> 0, skipped |-> 0]

\* variant: an id that is not found is passed over without being counted
BulkStep_missing_uncounted(st, disc_id, new_status, user_name, user_role, remarks) ==
  IF disc_id \notin 1..Len(st.sess.table)
  THEN st
  ELSE IF ~can_transition(st.sess.rows[disc_id].status, new_status, user_role)
  THEN [st EXCEPT !.stats.skipped = @ + 1,
                  !.items = Append(@, Item(disc_id, st.sess, st.sess, "skipped", FALSE))]
  ELSE
    LET r == transition_status(st.sess, disc_id, new_status, user_name, user_role, remarks)
    IN IF r.item.result = "ok"
       THEN [st EXCEPT !.sess = r.sess, !.stats.success = @ + 1,
                       !.items = Append(@, [r.item EXCEPT !.result = "success"])]
       ELSE [st EXCEPT !.sess = r.sess, !.stats.failed = @ + 1,
                       !.items = Append(@, [r.item EXCEPT !.result = "failed"])]

\* variant: the loop does not check can_transition itself and leaves the
\* rejection to transition_status, whose WorkflowError it counts as failed
BulkStep_no_precheck(st, disc_id, new_status, user_name, user_role, remarks) ==
  IF disc_id \notin 1..Len(st.sess.table)
  THEN [st EXCEPT !.stats.skipped = @ + 1,
                  !.items = Append(@, Item(disc_id, st.sess, st.sess, "skipped", FALSE))]
  ELSE
    LET r == transition_status(st.sess, disc_id, new_status, user_name, user_role, remarks)
    IN IF r.item.result = "ok"
       THEN [st EXCEPT !.sess = r.sess, !.stats.success = @ + 1,
                       !.items = Append(@, [r.item EXCEPT !.result = "success"])]
       ELSE [st EXCEPT !.sess = r.sess, !.stats.failed = @ + 1,
                       !.items = Append(@, [r.item EXCEPT !.result = "failed"])]

\* one iteration of the loop of bulk_transition
BulkStep(st, disc_id, new_status, user_name, user_role, remarks) ==
  IF disc_id \notin 1..Len(st.sess.table)
  THEN [st EXCEPT !.stats.skipped = @ + 1,
                  !.items = Append(@, Item(disc_id, st.sess, st.sess, "skipped", FALSE))]
  ELSE IF ~can_transition(st.sess.rows[disc_id].status, new_status, user_role)
  THEN [st EXCEPT !.stats.skipped = @ + 1,
                  !.items = Append(@, Item(disc_id, st.sess, st.sess, "skipped", FALSE))]
  ELSE
    LET r == transition_status(st.sess, disc_id, new_status, user_name, user_role, remarks)
    IN IF r.item.result = "ok"
       THEN [st EXCEPT !.sess = r.sess, !.stats.success = @ + 1,
                       !.items = Append(@, [r.item EXCEPT !.result = "success"])]
       ELSE [st EXCEPT !.sess = r.sess, !.stats.failed = @ + 1,
                       !.items = Append(@, [r.item EXCEPT !.result = "failed"])]

RECURSIVE BulkLoop(_, _, _, _, _, _)
BulkLoop(st, ids, new_status, user_name, user_role, remarks) ==
  IF ids = << >> THEN st
  ELSE BulkLoop(BulkStep(st, Head(ids), new_status, user_name, user_role, remarks),
                Tail(ids), new_status, user_name, user_role, remarks)

bulk_transition(sess, discrepancy_ids, new_status, user_name, user_role, remarks) ==
  BulkLoop([sess |-> sess, stats |-> NoStats, items |-> << >>],
           discrepancy_ids, new_status, user_name, user_role, remarks)

\* -------------------------------------------------------------- requests
\* last = the request served last and what it returned; last.op = "none" once
\* its session is closed and its response is forgotten.  A request is served
\* as one step.
NoLast ==
  [op |-> "none", village |-> NoneVal,
   new |-> 0, updated |-> 0, modified |-> 0, repeat |-> FALSE,
   ids |-> << >>, new_status |-> NoneVal, role |-> NoneVal,
   items |-> << >>, stats |-> NoStats, returned |-> << >>, limit |-> 0,
   error |-> NoneVal, status_code |-> 0,
   resolved |-> 0]   \* stats['resolved_discrepancies']: set to 0, written by no statement

Idle == last.op = "none"

Workers == {1, 2}

Init ==
  /\ \E ps \in SUBSET {1}, rs \in SUBSET {1, 2} :
        /\ parcels = FilterSeq(CandParcels, ps)
        /\ records = FilterSeq(CandRecords, rs)
  /\ discrepancies = << >>
  /\ change_logs = << >>
  /\ last = NoLast
  /\ runs = [w \in Workers |-> << >>]

\* POST /priority/detect: EnhancedDiscrepancyEngine.run_detection and its commit
\* a run may follow the previous run directly, with no request in between
RunDetection(village_code, max_rows) ==
  /\ Idle \/ last.op = "detect"
  /\ \E sess \in run_detection(discrepancies, village_code) :
       /\ Len(EndDetection(discrepancies, sess)) <= max_rows
       /\ discrepancies' = EndDetection(discrepancies, sess)
       /\ last' = [NoLast EXCEPT !.op = "detect", !.village = village_code,
                                 !.new = IF sess.error = NoneVal THEN sess.new ELSE 0,
                                 !.updated = IF sess.error = NoneVal THEN sess.updated ELSE 0,
                                 !.modified = IF sess.error = NoneVal THEN sess.modified ELSE 0,
                                 !.error = sess.error,
                                 !.repeat = (last.op = "detect" /\ last.village = village_code)]
  /\ UNCHANGED << parcels, records, change_logs, runs >>

IdsToTry == 1..(Len(discrepancies) + 1)

\* the class of the exception transition_status leaves with: a missing row
\* and a refused transition both raise WorkflowError, with different messages
RaisedException(result) ==
  IF result = "ok" THEN NoneVal
  ELSE IF result \in {"not_found", "violation"} THEN "WorkflowError"
  ELSE result

\* the status of the response: WorkflowError is turned into HTTPException(400),
\* any other exception leaves the handler
ResponseStatus(exception) ==
  IF exception = NoneVal THEN 200
  ELSE IF exception = "WorkflowError" THEN 400
  ELSE 500

\* POST /workflow/transition/{id}
TransitionStatus(id, new_status, user_role, remarks) ==
  /\ Idle
  /\ LET r == transition_status(WorkflowSession(discrepancies, change_logs),
                                id, new_status, UserName, user_role, remarks)
     IN /\ discrepancies' = r.sess.table
        /\ change_logs' = r.sess.logs
        /\ last' = [NoLast EXCEPT !.op = "transition", !.ids = << id >>,
                                  !.new_status = new_status, !.role = user_role,
                                  !.items = << r.item >>,
                                  !.error = RaisedException(r.item.result),
                                  !.status_code = ResponseStatus(RaisedException(r.item.result)),
                                  !.returned = IF r.item.result = "ok"
                                               THEN << r.sess.rows[id] >> ELSE << >>]
  /\ UNCHANGED << parcels, records, runs >>

BulkIds == UNION { [1..n -> IdsToTry] : n \in 1..MaxBulk }

\* POST /workflow/bulk-transition
BulkTransition(ids, new_status, user_role) ==
  /\ Idle
  /\ LET st == bulk_transition(WorkflowSession(discrepancies, change_logs),
                               ids, new_status, UserName, user_role, NoneVal)
     IN /\ discrepancies' = st.sess.table
        /\ change_logs' = st.sess.logs
        /\ last' = [NoLast EXCEPT !.op = "bulk", !.ids = ids,
                                  !.new_status = new_status, !.role = user_role,
                                  !.items = st.items, !.stats = st.stats]
  /\ UNCHANGED << parcels, records, runs >>

\* PATCH /discrepancies/{id}/status, sent without resolution_remarks
update_discrepancy_status(id, status) ==
  /\ Idle
  /\ id \in 1..Len(discrepancies)
  /\ discrepancies' =
       [discrepancies EXCEPT ![id].status = status,
                             ![id].resolved_at = IF status = "resolved" THEN "stamped" ELSE @]
  /\ last' = [NoLast EXCEPT !.op = "patch", !.ids = << id >>, !.new_status = status]
  /\ UNCHANGED << parcels, records, change_logs, runs >>

\* get_db: finally db.close(); what the session had not committed is discarded
CloseSession ==
  /\ ~Idle
  /\ last' = NoLast
  /\ UNCHANGED << parcels, records, discrepancies, change_logs, runs >>

Next ==
  \/ \E village_code \in VillageFilters : RunDetection(village_code, MaxDisc)
  \/ \E id \in IdsToTry, new_status \in Statuses, user_role \in Roles, remarks \in Remarks :
        TransitionStatus(id, new_status, user_role, remarks)
  \/ \E ids \in BulkIds, new_status \in Statuses, user_role \in Roles :
        BulkTransition(ids, new_status, user_role)
  \/ CloseSession

Spec == Init /\ [][Next]_vars

\* the resolution workflow on a small table: one parcel without records, whose
\* missing_record discrepancy is detected and then worked on
MaxRows == 1          \* rows the discrepancies table may hold in WorkflowSpec

InitWorkflow ==
  /\ parcels = FilterSeq(CandParcels, {2})
  /\ records = << >>
  /\ discrepancies = << >>
  /\ change_logs = << >>
  /\ last = NoLast
  /\ runs = [w \in Workers |-> << >>]

NextWorkflow ==
  \/ \E village_code \in VillageFilters : RunDetection(village_code, MaxRows)
  \/ \E id \in IdsToTry, new_status \in Statuses, user_role \in Roles, remarks \in Remarks :
        TransitionStatus(id, new_status, user_role, remarks)
  \/ \E ids \in BulkIds, new_status \in Statuses, user_role \in Roles :
        BulkTransition(ids, new_status, user_role)
  \/ \E id \in IdsToTry, status \in Statuses : update_discrepancy_status(id, status)
  \/ CloseSession

WorkflowSpec == InitWorkflow /\ [][NextWorkflow]_vars

\* two detection requests served at the same time, each through its own
\* session: a run reads the committed table, its commit comes later
InitConcurrent ==
  /\ \E ps \in SUBSET {1, 2}, rs \in SUBSET {1} :
        /\ parcels = FilterSeq(CandParcels, ps)
        /\ records = FilterSeq(CandRecords, rs)
  /\ discrepancies = << >>
  /\ change_logs = << >>
  /\ last = NoLast
  /\ runs = [w \in Workers |-> << >>]

RECURSIVE SumPending(_)
SumPending(ws) ==
  IF ws = {} THEN 0
  ELSE LET w == CHOOSE x \in ws : TRUE
       IN (IF runs[w] = << >> THEN 0 ELSE Len(runs[w][1].pending)) + SumPending(ws \ {w})

\* run_detection up to the statement before db.commit()
BeginDetection(w, village_code) ==
  /\ runs[w] = << >>
  /\ \E sess \in run_detection(discrepancies, village_code) :
       /\ Len(discrepancies) + SumPending(Workers) + Len(sess.pending) <= MaxDisc
       /\ runs' = [runs EXCEPT ![w] = << sess >>]
  /\ UNCHANGED << parcels, records, discrepancies, change_logs, last >>

\* db.commit() of run_detection
CommitRun(w) ==
  /\ runs[w] # << >>
  /\ discrepancies' = CommitDetection(discrepancies, runs[w][1])
  /\ runs' = [runs EXCEPT ![w] = << >>]
  /\ UNCHANGED << parcels, records, change_logs, last >>

NextConcurrent ==
  \/ \E w \in Workers, village_code \in VillageFilters : BeginDetection(w, village_code)
  \/ \E w \in Workers : CommitRun(w)

ConcurrentSpec == InitConcurrent /\ [][NextConcurrent]_vars

\* ================================================================ claims
SameKey(a, b) == a.plot_id = b.plot_id /\ a.discrepancy_type = b.discrepancy_type

\* no two rows of the table with the same (plot id, type) are both open
NoDuplicateOpen(table) ==
  \A i, j \in 1..Len(table) :
     (i # j /\ SameKey(table[i], table[j]))
       => ~(table[i].status \in OpenStatuses /\ table[j].status \in OpenStatuses)

\* C1: in every reachable state, whatever detection runs and workflow
\* transitions were served, each (plot id, type) has at most one Discrepancy
\* in status open or under_review.
C1_AtMostOneOpen == NoDuplicateOpen(discrepancies)

\* the (plot id, type) pairs of a run's verdicts that have no open row yet
KeysToCreate(table, village_code) ==
  LET tvs == RunVerdicts(village_code)
  IN { << tvs[k].v.plot_id, tvs[k].v.type >> :
         k \in { n \in 1..Len(tvs) : ExistingMatches(table, tvs[n].v) = {} } }

\* C2: a detection run creates one Discrepancy per (plot id, type) that had no
\* open entry (a second verdict of the same pair in the run reuses the entry
\* the first one created), so a run started from a table without duplicates
\* ends in a table without duplicates.
C2_UpsertDedup ==
  [][ last'.op = "detect" =>
        /\ Len(discrepancies') - Len(discrepancies)
             = Cardinality(KeysToCreate(discrepancies, last'.village))
        /\ (NoDuplicateOpen(discrepancies) => NoDuplicateOpen(discrepancies')) ]_vars

\* C3: a detection run that directly follows a run with the same filter, with
\* no request in between, creates no Discrepancy and updates none.
C3_Idempotent ==
  (last.op = "detect" /\ last.repeat)
    => (last.new = 0 /\ last.updated = 0 /\ last.modified = 0)

\* C4: once two detection runs that read the table before either committed
\* have both committed, each (plot id, type) still has at most one open
\* Discrepancy.
C4_ConcurrentRunsDedup ==
  (\A w \in Workers : runs[w] = << >>) => NoDuplicateOpen(discrepancies)

\* ------------------------------------------------------ workflow claims
\* the transition table as the specification states it
AllowedTo(status) ==
  CASE status = "open" -> {"under_review", "resolved", "ignored"}
    [] status = "under_review" -> {"open", "resolved", "disputed"}
    [] status = "resolved" -> {"open"}
    [] status = "disputed" -> {"under_review", "resolved"}
    [] status = "ignored" -> {"open"}
    [] OTHER -> {}

Permitted(status, new_status, role) ==
  new_status \in AllowedTo(status) /\ role \in TRANSITION_ROLES(status, new_status)

WorkflowStep == last'.op \in {"transition", "bulk"}

\* the ChangeLog rows a step has committed
NewLogs == SubSeq(change_logs', Len(change_logs) + 1, Len(change_logs'))

C6_RejectedTransitionNoEffect ==
  [][ last'.op = "transition" =>
        LET id == last'.ids[1]
            it == last'.items[1]
            rejected ==
              \/ id \notin 1..Len(discrepancies)
              \/ ~Permitted(discrepancies[id].status, last'.new_status, last'.role)
        IN rejected =>
             /\ it.result \in {"not_found", "violation"}
             /\ (it.result = "not_found") <=> (id \notin 1..Len(discrepancies))
             /\ ~it.dirty
             /\ it.after = it.before
             /\ ~it.log_called
             /\ last'.returned = << >>
             /\ discrepancies' = discrepancies
             /\ change_logs' = change_logs ]_vars

\* an operator asked to resolve an existing open discrepancy and was refused
C6_Witness ==
  /\ last.op = "transition"
  /\ last.role = "operator"
  /\ last.new_status = "resolved"
  /\ last.items[1].found
  /\ last.items[1].before = "open"
  /\ last.items[1].result = "violation"

\* C7: every status assignment made by transition or bulkTransition follows
\* an edge of the table and is made by a role of the edge's whitelist; an
\* operator never moves a discrepancy into resolved or ignored and only an
\* admin re-opens a resolved one.
C7_OnlyTableEdges ==
  [][ WorkflowStep =>
        /\ \A k \in 1..Len(last'.items) :
             LET it == last'.items[k]
             IN (it.dirty \/ it.after # it.before \/ it.log_called) =>
                  /\ it.after \in AllowedTo(it.before)
                  /\ last'.new_status = it.after
                  /\ last'.role \in TRANSITION_ROLES(it.before, it.after)
                  /\ (last'.role = "operator" => it.after \notin {"resolved", "ignored"})
                  /\ (it.before = "resolved" => last'.role = "admin")
        /\ \A id \in 1..Len(discrepancies) :
             discrepancies'[id].status # discrepancies[id].status
               => /\ discrepancies'[id].status \in AllowedTo(discrepancies[id].status)
                  /\ last'.role \in TRANSITION_ROLES(discrepancies[id].status,
                                                      discrepancies'[id].status) ]_vars

\* an admin's request set a resolved discrepancy back to open
C7_Witness ==
  /\ last.op \in {"transition", "bulk"}
  /\ last.role = "admin"
  /\ \E k \in 1..Len(last.items) :
       last.items[k].before = "resolved" /\ last.items[k].after = "open"

\* C8: a permitted transition succeeds, leaves the discrepancy in the new
\* status (with resolver and resolution time stamped when it is resolved) and
\* appends exactly one status_change entry with the old and the new status.
C8_SuccessfulTransitionOneEntry ==
  [][ last'.op = "transition" =>
        LET id == last'.ids[1]
            it == last'.items[1]
        IN (id \in 1..Len(discrepancies)
              /\ Permitted(discrepancies[id].status, last'.new_status, last'.role))
           => /\ it.result = "ok"
              /\ discrepancies'[id].status = last'.new_status
              /\ (last'.new_status = "resolved" =>
                    /\ discrepancies'[id].resolved_by = UserName
                    /\ discrepancies'[id].resolved_at = "stamped")
              /\ Len(NewLogs) = 1
              /\ NewLogs[1].entity_id = id
              /\ NewLogs[1].action = "status_change"
              /\ NewLogs[1].old_values = discrepancies[id].status
              /\ NewLogs[1].new_values = last'.new_status ]_vars

CountItems(items, result) ==
  Cardinality({k \in 1..Len(items) : items[k].result = result})

\* C9: bulkTransition processes every id of its input, in order, and its
\* counts add up to the number of ids: success + failed + skipped = |ids|.
C9_BulkCountsSum ==
  last.op = "bulk" =>
    /\ Len(last.items) = Len(last.ids)
    /\ \A k \in 1..Len(last.ids) : last.items[k].id = last.ids[k]
    /\ last.stats.success + last.stats.failed + last.stats.skipped = Len(last.ids)
    /\ last.stats.success = CountItems(last.items, "success")
    /\ last.stats.failed = CountItems(last.items, "failed")
    /\ last.stats.skipped = CountItems(last.items, "skipped")

\* a batch of a missing id and an id whose application raised
C9_Witness ==
  /\ last.op = "bulk"
  /\ Len(last.ids) >= 2
  /\ last.stats.failed >= 1
  /\ last.stats.skipped >= 1
  /\ \E k \in 1..Len(last.items) : ~last.items[k].found

\* C10: in bulkTransition an id that is missing or whose transition is not
\* permitted is counted as skipped, keeps its status and gets no ledger
\* entry; failed counts only errors raised while a permitted transition was
\* being applied.
C10_BulkSkippedUntouched ==
  [][ last'.op = "bulk" =>
        LET items == last'.items
            refused(k) == \/ ~items[k].found
                          \/ ~Permitted(items[k].before, last'.new_status, last'.role)
            skippedOnly == { items[k].id : k \in 1..Len(items) } \
                             { items[k].id : k \in {n \in 1..Len(items) : ~refused(n)} }
        IN /\ \A k \in 1..Len(items) :
                /\ items[k].found <=> items[k].id \in 1..Len(discrepancies)
                /\ (items[k].found /\ \A n \in 1..(k-1) : items[n].id # items[k].id)
                     => items[k].before = discrepancies[items[k].id].status
                /\ refused(k) <=> items[k].result = "skipped"
                /\ refused(k) => /\ items[k].after = items[k].before
                                  /\ ~items[k].dirty
                                  /\ ~items[k].log_called
                /\ items[k].result = "failed" => items[k].log_called
           /\ \A k \in 1..Len(NewLogs) : NewLogs[k].entity_id \notin skippedOnly
           /\ \A id \in skippedOnly \cap (1..Len(discrepancies)) :
                discrepancies'[id] = discrepancies[id] ]_vars

\* an operator's batch to resolve an open discrepancy and a missing id: the
\* first is refused for the role, the second is not found, both are skipped
C10_Witness ==
  /\ last.op = "bulk"
  /\ last.role = "operator"
  /\ last.new_status = "resolved"
  /\ last.stats.skipped = 2
  /\ \E k, n \in 1..Len(last.items) :
       /\ last.items[k].found /\ last.items[k].before = "open"
       /\ last.items[k].result = "skipped"
       /\ ~last.items[n].found /\ last.items[n].result = "skipped"

\* ------------------------------------------------------- ledger claims
\* the Discrepancy rows a step created or changed in the committed table
MutatedRows ==
  (Len(discrepancies') - Len(discrepancies))
  + Cardinality({i \in 1..Len(discrepancies) : discrepancies'[i] # discrepancies[i]})

\* C11: every mutation of a tracked entity leaves exactly one AuditEntry: a
\* step adds as many entries to the ledger as it created or changed
\* Discrepancy rows (creation or in-place update by detection, status change).
C11_EveryMutationAudited ==
  [][ Len(change_logs') - Len(change_logs) = MutatedRows ]_vars

\* C12: the committed status of a Discrepancy changes only through the state
\* machine: the step is a transition or bulk transition, the change follows
\* an edge of the table and it leaves a status_change entry in the ledger.
C12_StatusOnlyThroughStateMachine ==
  [][ \A id \in 1..Len(discrepancies) :
        discrepancies'[id].status # discrepancies[id].status
          => /\ WorkflowStep
             /\ discrepancies'[id].status \in AllowedTo(discrepancies[id].status)
             /\ \E k \in 1..Len(NewLogs) :
                   NewLogs[k].entity_id = id /\ NewLogs[k].action = "status_change" ]_vars

\* ---------------------------------------------------------- ledger reads
MaxLogs == 2          \* ChangeLog rows the store holds when the service starts

Times == {1, 2}
LedgerEntities == {1, 2}
Limits == 1..MaxLogs

ChangeLogRow(entity_id, ts) ==
  [entity_type |-> "discrepancy", entity_id |-> entity_id, action |-> "status_change",
   old_values |-> "open", new_values |-> "under_review", user_name |-> UserName,
   remarks |-> NoneVal, timestamp |-> ts]

\* the contents the change_logs table can have: rows in insertion order, each
\* stamped with datetime.utcnow() when it was built, so timestamps do not
\* decrease along the table and two rows may carry the same one
Ledgers ==
  { lg \in UNION { [1..n -> {ChangeLogRow(e, t) : e \in LedgerEntities, t \in Times}]
                     : n \in 0..MaxLogs }
      : \A i \in 1..(Len(lg) - 1) : lg[i].timestamp <= lg[i + 1].timestamp }

\* query.order_by(desc(ChangeLog.timestamp)).limit(limit).all(): the rows of
\* matching (positions in the table), newest first; the statement gives no
\* second sort key, so rows with the same timestamp come in any order
NewestFirst(logs, matching, limit) ==
  LET n == Cardinality(matching)
      orders == { p \in [1..n -> matching] :
                    /\ \A a, b \in 1..n : a # b => p[a] # p[b]
                    /\ \A a \in 1..(n - 1) : logs[p[a]].timestamp >= logs[p[a + 1]].timestamp }
  IN { SubSeq(p, 1, Min(limit, n)) : p \in orders }

get_entity_history(logs, entity_type, entity_id, limit) ==
  NewestFirst(logs, {i \in 1..Len(logs) : /\ logs[i].entity_type = entity_type
                                          /\ logs[i].entity_id = entity_id}, limit)

get_user_activity(logs, user_name, limit) ==
  NewestFirst(logs, {i \in 1..Len(logs) : logs[i].user_name = user_name}, limit)

get_recent_changes(logs, entity_type, action, limit) ==
  NewestFirst(logs, {i \in 1..Len(logs) :
                       /\ entity_type # NoneVal => logs[i].entity_type = entity_type
                       /\ action # NoneVal => logs[i].action = action}, limit)

\* the attributes of a ChangeLog the read endpoints copy into a ChangeLogItem
ChangeLogItemReads ==
  {"id", "entity_type", "entity_id", "action", "timestamp", "user_name", "user_role",
   "remarks", "old_values", "new_values"}

\* building the response: reading an attribute the ChangeLog class does not
\* have raises AttributeError, once there is a row to copy
ResponseError(res) ==
  IF res # << >> /\ ~(ChangeLogItemReads \subseteq ChangeLogColumns)
  THEN "AttributeError" ELSE NoneVal

\* GET /workflow/history/discrepancy/{entity_id}; a read may follow the
\* previous read directly, with no request in between
GetEntityHistory(entity_id, limit) ==
  /\ Idle \/ last.op = "history"
  /\ \E res \in get_entity_history(change_logs, "discrepancy", entity_id, limit) :
       last' = [NoLast EXCEPT !.op = "history", !.ids = << entity_id >>,
                              !.limit = limit, !.returned = res,
                              !.error = ResponseError(res)]
  /\ UNCHANGED << parcels, records, discrepancies, change_logs, runs >>

\* GET /workflow/user-activity/{user_name}
GetUserActivity(user_name, limit) ==
  /\ Idle
  /\ \E res \in get_user_activity(change_logs, user_name, limit) :
       last' = [NoLast EXCEPT !.op = "activity", !.limit = limit, !.returned = res,
                              !.error = ResponseError(res)]
  /\ UNCHANGED << parcels, records, discrepancies, change_logs, runs >>

\* GET /workflow/recent-changes
GetRecentChanges(entity_type, limit) ==
  /\ Idle
  /\ \E res \in get_recent_changes(change_logs, entity_type, NoneVal, limit) :
       last' = [NoLast EXCEPT !.op = "recent", !.limit = limit, !.returned = res,
                              !.error = ResponseError(res)]
  /\ UNCHANGED << parcels, records, discrepancies, change_logs, runs >>

\* the ledger under the operations of the audit service, the workflow
\* service and the detection engine
InitLedger ==
  /\ parcels = FilterSeq(CandParcels, {2})
  /\ records = << >>
  /\ discrepancies = << >>
  /\ change_logs \in Ledgers
  /\ last = NoLast
  /\ runs = [w \in Workers |-> << >>]

NextLedger ==
  \/ \E village_code \in VillageFilters : RunDetection(village_code, MaxRows)
  \/ \E id \in IdsToTry, new_status \in Statuses, user_role \in Roles, remarks \in Remarks :
        TransitionStatus(id, new_status, user_role, remarks)
  \/ \E ids \in BulkIds, new_status \in Statuses, user_role \in Roles :
        BulkTransition(ids, new_status, user_role)
  \/ \E entity_id \in LedgerEntities, limit \in Limits : GetEntityHistory(entity_id, limit)
  \/ \E limit \in Limits : GetUserActivity(UserName, limit)
  \/ \E entity_type \in {NoneVal, "discrepancy"}, limit \in Limits :
        GetRecentChanges(entity_type, limit)
  \/ CloseSession

LedgerSpec == InitLedger /\ [][NextLedger]_vars

\* C13: the ledger is append-only: every step of the audit service, the
\* workflow service and the detection engine leaves each existing entry in
\* place with the same field values; the ledger only grows at its end.
C13_LedgerAppendOnly ==
  [][ /\ Len(change_logs') >= Len(change_logs)
      /\ SubSeq(change_logs', 1, Len(change_logs)) = change_logs ]_vars

\* a transition of discrepancy 1, which has an entry in the ledger, reached
\* the audit write
C13_Witness ==
  /\ last.op = "transition"
  /\ last.items[1].log_called
  /\ \E i \in 1..Len(change_logs) : change_logs[i].entity_id = last.ids[1]

MaxBatch == 2
MaxRecords == 4

Plots == {Plot1, Plot2}
NoPlot == [v |-> NoneVal, n |-> 0]

\* the rows of one upload; a row without plot_id is skipped by the seeder
RecordData == [plot_id : Plots \cup {NoPlot}, recorded_area_sqm : {80}]
Batches == UNION {[1..n -> RecordData] : n \in 1..MaxBatch}

NextRecordId(table, pending) ==
  1 + Len(pending) + (IF table = << >> THEN 0
                      ELSE CHOOSE m \in {table[i].id : i \in 1..Len(table)} :
                             \A i \in 1..Len(table) : table[i].id <= m)

LandRecord(id, record_data, version, previous_version_id) ==
  [id |-> id, plot_id |-> record_data.plot_id,
   recorded_area_sqm |-> record_data.recorded_area_sqm, name_sim |-> NoNum,
   is_current |-> TRUE, version |-> version, previous_version_id |-> previous_version_id]

\* the loop of DataSeeder.seed_land_records and its commit. The session does
\* not autoflush: the query for the current record of a plot is evaluated on
\* the committed rows (table), so it sees neither the records added earlier in
\* the batch (pending) nor the is_current = False set on loaded rows (marked).
\* .first() has no ORDER BY: any matching row. The result is the set of tables
\* the commit can leave.
RECURSIVE seed_land_records(_, _, _, _)
seed_land_records(table, marked, pending, records_data) ==
  IF records_data = << >>
  THEN { [i \in 1..Len(table) |->
            IF i \in marked THEN [table[i] EXCEPT !.is_current = FALSE] ELSE table[i]]
         \o pending }
  ELSE LET record_data == Head(records_data)
           existing == {i \in 1..Len(table) :
                          table[i].plot_id = record_data.plot_id /\ table[i].is_current}
           id == NextRecordId(table, pending)
       IN IF record_data.plot_id = NoPlot
          THEN seed_land_records(table, marked, pending, Tail(records_data))
          ELSE IF existing = {}
          THEN seed_land_records(table, marked,
                 Append(pending, LandRecord(id, record_data, 1, 0)), Tail(records_data))
          ELSE UNION { seed_land_records(table, marked \cup {i},
                         Append(pending, LandRecord(id, record_data, table[i].version + 1,
                                                    table[i].id)),
                         Tail(records_data)) : i \in existing }

\* POST /upload/land-records (seed_immediately) and POST /upload/nakal
SeedLandRecords(records_data) ==
  /\ Len(records) + Len(records_data) <= MaxRecords
  /\ records' \in seed_land_records(records, {}, << >>, records_data)
  /\ UNCHANGED << parcels, discrepancies, change_logs, last, runs >>

FeatureParcel(plot_id) ==
  CandParcels[CHOOSE k \in 1..Len(CandParcels) : CandParcels[k].plot_id = plot_id]

\* the feature loop of load_geojson_to_db on the tables left by the optional
\* clear. The flush of a Parcel whose plot_id is already stored violates the
\* unique constraint: the exception rolls back to the committed tables.
RECURSIVE LoadFeatures(_, _, _, _)
LoadFeatures(committed, ps, rs, features) ==
  IF features = << >> THEN [parcels |-> ps, records |-> rs]
  ELSE IF \E i \in 1..Len(ps) : ps[i].plot_id = Head(features) THEN committed
  ELSE LoadFeatures(committed, Append(ps, FeatureParcel(Head(features))),
         Append(rs, LandRecord(NextRecordId(rs, << >>),
                               [plot_id |-> Head(features), recorded_area_sqm |-> 80], 1, 0)),
         Tail(features))

load_geojson_to_db(features, clear_existing) ==
  LET committed == IF clear_existing THEN [parcels |-> << >>, records |-> << >>]
                   ELSE [parcels |-> parcels, records |-> records]
  IN LoadFeatures(committed, committed.parcels, committed.records, features)

\* scripts/load_geojson.py, with or without --no-clear
LoadGeojson(features, clear_existing) ==
  /\ Len(discrepancies) = 0
  /\ clear_existing \/ Len(records) + Len(features) <= MaxRecords
  /\ LET res == load_geojson_to_db(features, clear_existing)
     IN /\ parcels' = res.parcels
        /\ records' = res.records
  /\ UNCHANGED << discrepancies, change_logs, last, runs >>

InitIngest ==
  /\ \E ps \in SUBSET {1, 2}, rs \in SUBSET {1, 3} :
        /\ parcels = FilterSeq(CandParcels, ps)
        /\ records = FilterSeq(CandRecords, rs)
  /\ discrepancies = << >>
  /\ change_logs = << >>
  /\ last = NoLast
  /\ runs = [w \in Workers |-> << >>]

NextIngest ==
  \/ \E records_data \in Batches : SeedLandRecords(records_data)
  \/ \E features \in UNION {[1..n -> Plots] : n \in 1..MaxBatch}, clear_existing \in BOOLEAN :
        LoadGeojson(features, clear_existing)

IngestSpec == InitIngest /\ [][NextIngest]_vars

CurrentOf(recs, plot_id) == {i \in 1..Len(recs) : recs[i].plot_id = plot_id /\ recs[i].is_current}

\* C15: after every ingestion step each plot id has at most one LandRecord
\* with is_current = true, and a record superseded by the step (a new version
\* points back to it) is kept unchanged except for is_current = false.
C15_OneCurrentRecordPerPlot ==
  [][ /\ \A plot_id \in Plots : Cardinality(CurrentOf(records', plot_id)) <= 1
      /\ \A i \in 1..Len(records) :
            (\E j \in (Len(records) + 1)..Len(records') :
                records'[j].previous_version_id = records[i].id)
            => records'[i] = [records[i] EXCEPT !.is_current = FALSE] ]_vars

\* ------------------------------------------------- upsert of one verdict
MaxUpsert == 2

\* total scores compute_severity_score can return, 5, 10 and 15 apart
Scores == {45, 50, 60}

Verdicts ==
  { Verdict(type, Plot1, 1, 0, [severity |-> SeverityOf(sc), total_score |-> sc]) :
      type \in {"missing_record", "area_mismatch"}, sc \in Scores }

\* a detection run whose checks yield the one verdict v, and its commit
UpsertVerdict(v) ==
  /\ Idle
  /\ \E sess \in _create_or_update_discrepancy(
                   [table |-> discrepancies, rows |-> discrepancies, pending |-> << >>,
                    new |-> 0, updated |-> 0, modified |-> 0, error |-> NoneVal],
                   [v |-> v, counted |-> TRUE]) :
       /\ Len(CommitDetection(discrepancies, sess)) <= MaxUpsert
       /\ discrepancies' = CommitDetection(discrepancies, sess)
       /\ last' = [NoLast EXCEPT !.op = "upsert", !.new = sess.new,
                                 !.updated = sess.updated, !.modified = sess.modified,
                                 !.returned = << v >>]
  /\ UNCHANGED << parcels, records, change_logs, runs >>

InitUpsert ==
  /\ parcels = FilterSeq(CandParcels, {1})
  /\ records = << >>
  /\ discrepancies = << >>
  /\ change_logs = << >>
  /\ last = NoLast
  /\ runs = [w \in Workers |-> << >>]

NextUpsert ==
  \/ \E v \in Verdicts : UpsertVerdict(v)
  \/ \E id \in IdsToTry, status \in {"under_review", "resolved"} :
        update_discrepancy_status(id, status)
  \/ CloseSession

UpsertSpec == InitUpsert /\ [][NextUpsert]_vars

classify_severity_by_computed(computed_sqm, recorded_sqm) ==
  IF ~DiffPercentGt(recorded_sqm, computed_sqm, area_tolerance_minor) THEN NoneVal
  ELSE IF ~DiffPercentGt(recorded_sqm, computed_sqm, area_tolerance_major) THEN "minor"
  ELSE IF ~DiffPercentGt(recorded_sqm, computed_sqm, 30) THEN "major"
  ELSE "critical"

\* the severity of difference_percent = |computed - recorded| / recorded * 100,
\* compared as exact fractions
classify_severity(computed_sqm, recorded_sqm) ==
  IF ~DiffPercentGt(computed_sqm, recorded_sqm, area_tolerance_minor) THEN NoneVal
  ELSE IF ~DiffPercentGt(computed_sqm, recorded_sqm, area_tolerance_major) THEN "minor"
  ELSE IF ~DiffPercentGt(computed_sqm, recorded_sqm, 30) THEN "major"
  ELSE "critical"

compare_areas(computed_sqm, recorded_sqm) ==
  IF computed_sqm = NoNum \/ recorded_sqm = NoNum THEN "major"
  ELSE IF computed_sqm <= 0 \/ recorded_sqm <= 0 THEN "critical"
  ELSE classify_severity(computed_sqm, recorded_sqm)

\* the details these verdicts are stored with carry no score
LegacyVerdict(type, plot_id, parcel_id, record_id, severity) ==
  [type |-> type, plot_id |-> plot_id, parcel_id |-> parcel_id, record_id |-> record_id,
   severity |-> severity, score |-> NoNum]

\* the owner names of the records modelled have three characters or more, so
\* the incomplete-name check of this engine yields nothing
RECURSIVE LegacyCheckRecords(_, _)
LegacyCheckRecords(parcel, recs) ==
  IF recs = << >> THEN << >>
  ELSE (IF /\ Truthy(parcel.computed_area_sqm) /\ Truthy(Head(recs).recorded_area_sqm)
           /\ compare_areas(parcel.computed_area_sqm, Head(recs).recorded_area_sqm) # NoneVal
        THEN << LegacyVerdict("area_mismatch", parcel.plot_id, parcel.id, 0,
                  compare_areas(parcel.computed_area_sqm, Head(recs).recorded_area_sqm)) >>
        ELSE << >>)
       \o LegacyCheckRecords(parcel, Tail(recs))

\* the records are read per parcel, by plot_id and is_current, with no village filter
_check_parcel(parcel) ==
  LET recs == SelectSeq(records, LAMBDA r : r.plot_id = parcel.plot_id /\ r.is_current)
  IN IF recs = << >>
     THEN << LegacyVerdict("missing_record", parcel.plot_id, parcel.id, 0, "major") >>
     ELSE (IF Len(recs) > 1
           THEN << LegacyVerdict("duplicate_record", parcel.plot_id, parcel.id, 0, "minor") >>
           ELSE << >>)
          \o LegacyCheckRecords(parcel, recs)

_find_orphan_records(village_code) ==
  LET ps == ParcelQuery(village_code)
      parcel_plot_ids == {ps[i].plot_id : i \in 1..Len(ps)}
  IN SelectSeq(records, LAMBDA r : /\ r.is_current
                                   /\ (parcel_plot_ids = {} \/ r.plot_id \notin parcel_plot_ids))

\* one verdict of a parcel: an open match is rewritten (its new details carry
\* no score), an under_review match is left alone, no match adds a row
LegacyUpsert(sess, v) ==
  LET m == ExistingMatches(sess.table, v)
  IN IF m # {}
     THEN { IF sess.rows[i].status = "open"
            THEN [sess EXCEPT !.rows[i].severity = v.severity, !.rows[i].score = NoNum,
                              !.updated = @ + 1, !.modified = @ + 1]
            ELSE sess
          : i \in m }
     ELSE { [sess EXCEPT !.pending = Append(@, NewDiscrepancy(v)), !.new = @ + 1] }

\* one orphan record: a row is added unless a match exists
LegacyOrphan(sess, v) ==
  IF ExistingMatches(sess.table, v) # {} THEN {sess}
  ELSE { [sess EXCEPT !.pending = Append(@, NewDiscrepancy(v)), !.new = @ + 1] }

RECURSIVE LegacyUpsertAll(_, _)
LegacyUpsertAll(sess, vs) ==
  IF vs = << >> THEN {sess}
  ELSE UNION { LegacyUpsertAll(s2, Tail(vs)) :
                 s2 \in (IF Head(vs).type = "missing_parcel" THEN LegacyOrphan(sess, Head(vs))
                         ELSE LegacyUpsert(sess, Head(vs))) }

RECURSIVE LegacyParcelVerdicts(_)
LegacyParcelVerdicts(ps) ==
  IF ps = << >> THEN << >>
  ELSE _check_parcel(Head(ps)) \o LegacyParcelVerdicts(Tail(ps))

RECURSIVE LegacyOrphanVerdicts(_)
LegacyOrphanVerdicts(recs) ==
  IF recs = << >> THEN << >>
  ELSE << LegacyVerdict("missing_parcel", Head(recs).plot_id, 0, Head(recs).id, "major") >>
       \o LegacyOrphanVerdicts(Tail(recs))

\* DiscrepancyEngine.run_detection up to its commit: the sessions it can end in
legacy_run_detection(table, village_code) ==
  LegacyUpsertAll([table |-> table, rows |-> table, pending |-> << >>,
                   new |-> 0, updated |-> 0, modified |-> 0, error |-> NoneVal],
                  LegacyParcelVerdicts(ParcelQuery(village_code))
                  \o LegacyOrphanVerdicts(_find_orphan_records(village_code)))

MaxScope == 3

\* POST /discrepancies/detect
LegacyRunDetection(village_code) ==
  /\ Idle
  /\ \E sess \in legacy_run_detection(discrepancies, village_code) :
       /\ Len(CommitDetection(discrepancies, sess)) <= MaxScope
       /\ discrepancies' = CommitDetection(discrepancies, sess)
       /\ last' = [NoLast EXCEPT !.op = "legacy_detect", !.village = village_code,
                                 !.new = sess.new, !.updated = sess.updated,
                                 !.modified = sess.modified]
  /\ UNCHANGED << parcels, records, change_logs, runs >>

InitScope ==
  /\ \E ps \in SUBSET {1, 2}, rs \in SUBSET {1, 3} :
        /\ parcels = FilterSeq(CandParcels, ps)
        /\ records = FilterSeq(CandRecords, rs)
  /\ discrepancies = << >>
  /\ change_logs = << >>
  /\ last = NoLast
  /\ runs = [w \in Workers |-> << >>]

NextScope ==
  \/ \E village_code \in VillageFilters : RunDetection(village_code, MaxScope)
  \/ \E village_code \in VillageFilters : LegacyRunDetection(village_code)
  \/ \E id \in IdsToTry : update_discrepancy_status(id, "resolved")
  \/ CloseSession

ScopeSpec == InitScope /\ [][NextScope]_vars

DetectionStep == last'.op \in {"detect", "legacy_detect"}

NewRowsOfPlot(plot_id) ==
  {i \in (Len(discrepancies) + 1)..Len(discrepancies') : discrepancies'[i].plot_id = plot_id}

HasCurrentRecord(plot_id) ==
  \E k \in 1..Len(records) : records[k].plot_id = plot_id /\ records[k].is_current

HasOpenDiscrepancy(plot_id) ==
  \E i \in 1..Len(discrepancies) :
     discrepancies[i].plot_id = plot_id /\ discrepancies[i].status \in OpenStatuses

\* C17: a detection run creates, for every parcel in scope that has no current
\* LandRecord and no open or under_review discrepancy on its plot, exactly one
\* Discrepancy, of type missing_record and status open, and no row of any
\* other type for that plot.
C17_MissingRecordOnly ==
  [][ DetectionStep =>
        \A k \in 1..Len(ParcelQuery(last'.village)) :
           LET parcel == ParcelQuery(last'.village)[k]
           IN (~HasCurrentRecord(parcel.plot_id) /\ ~HasOpenDiscrepancy(parcel.plot_id))
              => /\ Cardinality(NewRowsOfPlot(parcel.plot_id)) = 1
                 /\ \A i \in NewRowsOfPlot(parcel.plot_id) :
                       /\ discrepancies'[i].discrepancy_type = "missing_record"
                       /\ discrepancies'[i].status = "open"
                       /\ discrepancies'[i].parcel_id = parcel.id ]_vars

\* a filtered run of the enhanced engine reported the record-less parcel of plot 1
C17_Witness ==
  /\ last.op = "detect" /\ last.village = "V1" /\ last.new = 1
  /\ \E k \in 1..Len(parcels) : parcels[k].plot_id = Plot1
  /\ ~HasCurrentRecord(Plot1)
  /\ \E i \in 1..Len(discrepancies) :
        /\ discrepancies[i].plot_id = Plot1
        /\ discrepancies[i].discrepancy_type = "missing_record"
        /\ discrepancies[i].status = "open"

HasParcel(plot_id) == \E k \in 1..Len(parcels) : parcels[k].plot_id = plot_id

\* C18: a detection run, filtered or not, adds a missing_parcel row only for a
\* plot that has no Parcel in the store and a missing_record row only for a
\* plot that has no current LandRecord; an unfiltered run adds a
\* missing_parcel row for every current record whose plot has no Parcel and
\* no open missing_parcel entry.
C18_MissingParcelExact ==
  [][ DetectionStep =>
        /\ \A i \in (Len(discrepancies) + 1)..Len(discrepancies') :
              /\ discrepancies'[i].discrepancy_type = "missing_parcel"
                    => ~HasParcel(discrepancies'[i].plot_id)
              /\ discrepancies'[i].discrepancy_type = "missing_record"
                    => ~HasCurrentRecord(discrepancies'[i].plot_id)
        /\ last'.village = NoneVal =>
              \A k \in 1..Len(records) :
                 (/\ records[k].is_current
                  /\ ~HasParcel(records[k].plot_id)
                  /\ ~\E i \in 1..Len(discrepancies) :
                        /\ discrepancies[i].plot_id = records[k].plot_id
                        /\ discrepancies[i].discrepancy_type = "missing_parcel"
                        /\ discrepancies[i].status \in OpenStatuses)
                 => \E i \in (Len(discrepancies) + 1)..Len(discrepancies') :
                       /\ discrepancies'[i].discrepancy_type = "missing_parcel"
                       /\ discrepancies'[i].record_id = records[k].id ]_vars

\* --------------------------------------------------------- priority queue
MaxQueue == 3

\* rows of the discrepancies table as the queue reads them; "corrupt" marks a
\* details text that json.loads rejects. Rows are stored in the order they
\* were detected: a later position means a later detected_at.
QueueRow(status, score, details) ==
  [NewDiscrepancy(Verdict("area_mismatch", Plot1, 1, 1,
                          [severity |-> "major", total_score |-> score]))
     EXCEPT !.status = status, !.details = details]

QueueRows ==
  { QueueRow(status, score, "json") : status \in {"open", "resolved"}, score \in {NoNum, 50, 60} }
  \cup { QueueRow(status, NoNum, "corrupt") : status \in {"open", "resolved"} }

Queues == UNION {[1..n -> QueueRows] : n \in 0..MaxQueue}

get_score(d) ==
  IF d.details = "corrupt" THEN 50
  ELSE IF d.score = NoNum THEN 50
  ELSE d.score

\* sorted(discrepancies, key=get_score, reverse=True) on a list of positions:
\* a stable sort, rows of equal score keep the order the query returned them in
RECURSIVE SortedByScore(_, _)
SortedByScore(table, order) ==
  IF order = << >> THEN << >>
  ELSE LET rest == SortedByScore(table, Tail(order))
           k == Cardinality({j \in 1..Len(rest) :
                               get_score(table[rest[j]]) > get_score(table[Head(order)])})
       IN SubSeq(rest, 1, k) \o << Head(order) >> \o SubSeq(rest, k + 1, Len(rest))

QueueMatching(table, village_code) ==
  {i \in 1..Len(table) : /\ table[i].status \in OpenStatuses
                         /\ village_code # NoneVal => table[i].plot_id.v = village_code}

\* query.all() has no ORDER BY: the matching rows come in any order
QueryOrders(matching) ==
  { p \in [1..Cardinality(matching) -> matching] :
      \A a, b \in 1..Cardinality(matching) : a # b => p[a] # p[b] }

\* the results get_priority_queue can produce: the positions of the entries
\* returned and the exception raised while the entries are built, where
\* json.loads(d.details) is applied to each of them outside any try
get_priority_queue(table, village_code, limit) ==
  { LET sorted_discs == SortedByScore(table, order)
        top == SubSeq(sorted_discs, 1, Min(limit, Len(sorted_discs)))
    IN IF \E a \in 1..Len(top) : table[top[a]].details = "corrupt"
       THEN [items |-> << >>, error |-> "JSONDecodeError"]
       ELSE [items |-> top, error |-> NoneVal]
    : order \in QueryOrders(QueueMatching(table, village_code)) }

\* GET /priority/queue
GetPriorityQueue(village_code, limit) ==
  /\ Idle
  /\ \E res \in get_priority_queue(discrepancies, village_code, limit) :
        last' = [NoLast EXCEPT !.op = "queue", !.village = village_code, !.limit = limit,
                               !.returned = res.items, !.error = res.error]
  /\ UNCHANGED << parcels, records, discrepancies, change_logs, runs >>

InitQueue ==
  /\ parcels = FilterSeq(CandParcels, {1})
  /\ records = FilterSeq(CandRecords, {1})
  /\ discrepancies \in Queues
  /\ change_logs = << >>
  /\ last = NoLast
  /\ runs = [w \in Workers |-> << >>]

NextQueue ==
  \/ \E village_code \in VillageFilters, limit \in 1..MaxQueue :
        GetPriorityQueue(village_code, limit)
  \/ \E id \in IdsToTry : update_discrepancy_status(id, "under_review")
  \/ CloseSession

QueueSpec == InitQueue /\ [][NextQueue]_vars

\* a outranks b: higher score, or the same score and detected later
Outranks(a, b) ==
  \/ get_score(discrepancies[a]) > get_score(discrepancies[b])
  \/ /\ get_score(discrepancies[a]) = get_score(discrepancies[b])
     /\ a > b

\* C19: a priority queue read that returns holds only open or under_review
\* entries matching the village filter, min(limit, number of such entries) of
\* them, each outranking the next (score descending, ties by detection time
\* descending) and every entry left out.
C19_QueueOrder ==
  (last.op = "queue" /\ last.error = NoneVal) =>
     LET res == last.returned
         matching == QueueMatching(discrepancies, last.village)
         inres == {res[a] : a \in 1..Len(res)}
     IN /\ inres \subseteq matching
        /\ Len(res) = Min(last.limit, Cardinality(matching))
        /\ Cardinality(inres) = Len(res)
        /\ \A a \in 1..(Len(res) - 1) : Outranks(res[a], res[a + 1])
        /\ \A i \in matching \ inres : \A a \in 1..Len(res) : Outranks(res[a], i)

\* C20: a priority queue read never fails, whatever the details of the stored
\* entries: it returns min(limit, number of matching entries) entries, an
\* entry with corrupted details or without score among them at the rank of
\* the default score.
C20_QueueReadNeverFails ==
  last.op = "queue" =>
     /\ last.error = NoneVal
     /\ Len(last.returned) = Min(last.limit, Cardinality(QueueMatching(discrepancies, last.village)))
     /\ \A a \in 1..(Len(last.returned) - 1) :
           get_score(discrepancies[last.returned[a]]) >= get_score(discrepancies[last.returned[a + 1]])

\* ------------------------------------------- detection over damaged rows
MaxFault == 2

\* the missing_record rows a run stores for the two parcels, and the same
\* rows with a details text that is not JSON
FaultRows ==
  { [NewDiscrepancy(_check_parcel_enhanced(CandParcels[k], << >>)[1])
       EXCEPT !.status = status, !.details = details] :
      k \in 1..Len(CandParcels), status \in {"open", "resolved"}, details \in {"json", "corrupt"} }

InitFault ==
  /\ parcels = CandParcels
  /\ records = << >>
  /\ discrepancies \in UNION {[1..n -> FaultRows] : n \in 0..(MaxFault - 1)}
  /\ change_logs = << >>
  /\ last = NoLast
  /\ runs = [w \in Workers |-> << >>]

NextFault ==
  \/ \E village_code \in VillageFilters : RunDetection(village_code, MaxFault)
  \/ \E id \in IdsToTry : update_discrepancy_status(id, "resolved")
  \/ CloseSession

FaultSpec == InitFault /\ [][NextFault]_vars

\* C21: a run of the enhanced engine always returns its statistics, and every
\* verdict of the run whose (plot id, type) had no open or under_review entry
\* has its entry in the table afterwards, whatever happened to the verdicts
\* of other parcels.
C21_RunSurvivesParcelError ==
  [][ last'.op = "detect" =>
        /\ last'.error = NoneVal
        /\ \A k \in 1..Len(RunVerdicts(last'.village)) :
              LET v == RunVerdicts(last'.village)[k].v
              IN ExistingMatches(discrepancies, v) = {}
                 => \E i \in (Len(discrepancies) + 1)..Len(discrepancies') :
                       /\ discrepancies'[i].plot_id = v.plot_id
                       /\ discrepancies'[i].discrepancy_type = v.type ]_vars

\* C22: a transition requested on an id that does not exist ends with an
\* error outcome (exception class and response status) other than the one a
\* refused transition ends with.
C22_NotFoundDistinct ==
  (last.op = "transition" /\ ~last.items[1].found)
     => /\ last.error # NoneVal
        /\ << last.error, last.status_code >>
             # << RaisedException("violation"), ResponseStatus(RaisedException("violation")) >>

\* ------------------------------------------------------ scoring requests
MaxOccurrences == 4

DiscrepancyTypes ==
  {"area_mismatch", "name_mismatch", "missing_record", "missing_parcel",
   "duplicate_record", "duplicate_parcel", "other"}

ComputedAreas == {NoNum, 100}
RecordedAreas == {NoNum, 0, 70, 80, 90, 96, 100}
Similarities == {NoNum, 0, 49, 50, 79, 80, 94, 95, 100}

\* one call of compute_severity_score; the arguments and the result are kept
ComputeSeverityScore(t, c, r, sim, g, rec, f, n, res) ==
  /\ Idle
  /\ last' = [NoLast EXCEPT !.op = "score",
                !.returned = << [discrepancy_type |-> t, area_computed |-> c, area_recorded |-> r,
                                 name_similarity |-> sim, has_geometry |-> g, has_record |-> rec,
                                 has_father_name |-> f, previous_occurrences |-> n,
                                 was_resolved_before |-> res,
                                 score |-> compute_severity_score(t, c, r, sim, g, rec, f, n, res)] >>]
  /\ UNCHANGED << parcels, records, discrepancies, change_logs, runs >>

InitScore ==
  /\ parcels = << >>
  /\ records = << >>
  /\ discrepancies = << >>
  /\ change_logs = << >>
  /\ last = NoLast
  /\ runs = [w \in Workers |-> << >>]

NextScore ==
  \/ /\ Idle
     /\ \E t \in DiscrepancyTypes, c \in ComputedAreas, r \in RecordedAreas, sim \in Similarities, g \in BOOLEAN, rec \in BOOLEAN, f \in BOOLEAN, n \in 0..MaxOccurrences, res \in BOOLEAN :
           ComputeSeverityScore(t, c, r, sim, g, rec, f, n, res)
  \/ CloseSession

ScoreSpec == InitScore /\ [][NextScore]_vars

\* C23: whatever the type and the factor inputs, compute_severity_score
\* returns a total score between 0 and 100, and the repeat factor is at most 15.
C23_ScoreInRange ==
  last.op = "score" =>
     /\ last.returned[1].score.total_score \in 0..100
     /\ last.returned[1].score.repeated \in 0..15

\* factors adding up to 110 (critical area 40, no geometry 25, no record 25,
\* no father name 5, repeat 15) were scored 100
C23_Witness ==
  /\ last.op = "score"
  /\ last.returned[1].discrepancy_type = "area_mismatch"
  /\ last.returned[1].area_computed = 100 /\ last.returned[1].area_recorded = 70
  /\ ~last.returned[1].has_geometry /\ ~last.returned[1].has_record
  /\ ~last.returned[1].has_father_name
  /\ last.returned[1].previous_occurrences = 4
  /\ ~last.returned[1].was_resolved_before
  /\ last.returned[1].score.total_score = 100
  /\ last.returned[1].score.repeated = 15

\* ------------------------------------------------------- area comparison
MaxArea == 140

\* round(difference_percent, 2) in hundredths of a percent
RoundedPercent(difference_sqm, reference_area) ==
  (2 * difference_sqm * 10000 + reference_area) \div (2 * reference_area)

\* the AreaComparisonResult of compare_areas under the configured tolerances
AreaComparisonResult(computed_sqm, recorded_sqm) ==
  IF computed_sqm = NoNum \/ recorded_sqm = NoNum
  THEN [matches |-> FALSE, difference_percent |-> 0, severity |-> "major"]
  ELSE IF computed_sqm <= 0 \/ recorded_sqm <= 0
  THEN [matches |-> FALSE, difference_percent |-> 10000, severity |-> "critical"]
  ELSE [matches |-> classify_severity(computed_sqm, recorded_sqm) = NoneVal,
        difference_percent |-> RoundedPercent(Abs(computed_sqm - recorded_sqm), recorded_sqm),
        severity |-> classify_severity(computed_sqm, recorded_sqm)]

\* one call of compare_areas; the arguments and the result are kept
CompareAreas(computed_sqm, recorded_sqm) ==
  /\ Idle
  /\ last' = [NoLast EXCEPT !.op = "compare",
                !.returned = << [computed_sqm |-> computed_sqm, recorded_sqm |-> recorded_sqm,
                                 result |-> AreaComparisonResult(computed_sqm, recorded_sqm)] >>]
  /\ UNCHANGED << parcels, records, discrepancies, change_logs, runs >>

NextArea ==
  \/ /\ Idle
     /\ \E computed_sqm \in {NoNum, 0} \cup (60..MaxArea), recorded_sqm \in {NoNum, 0, 80, 100} :
           CompareAreas(computed_sqm, recorded_sqm)
  \/ CloseSession

AreaSpec == InitScore /\ [][NextArea]_vars

\* C24: for positive areas compare_areas reports |computed - recorded| /
\* recorded * 100 (to two decimals) and classifies it with tolerances 5 and 15:
\* at most 5 matches with no severity, at most 15 is minor, at most 30 is
\* major, above is critical; matches holds exactly when there is no severity;
\* compare(100, 80) gives 25 and major, compare(100, 100) matches.
C24_AreaBands ==
  (last.op = "compare" /\ last.returned[1].computed_sqm > 0 /\ last.returned[1].recorded_sqm > 0) =>
     LET c == last.returned[1].computed_sqm
         r == last.returned[1].recorded_sqm
         res == last.returned[1].result
         d == Abs(c - r)
     IN /\ res.severity = (IF d * 100 <= 5 * r THEN NoneVal
                           ELSE IF d * 100 <= 15 * r THEN "minor"
                           ELSE IF d * 100 <= 30 * r THEN "major"
                           ELSE "critical")
        /\ res.matches <=> res.severity = NoneVal
        /\ 2 * Abs(res.difference_percent * r - d * 10000) <= r
        /\ (c = 100 /\ r = 80) => (res.difference_percent = 2500 /\ res.severity = "major")
        /\ (c = 100 /\ r = 100) => res.matches

\* compare(100, 80) was computed: 25 percent, major, no match
C24_Witness ==
  /\ last.op = "compare"
  /\ last.returned[1].computed_sqm = 100 /\ last.returned[1].recorded_sqm = 80
  /\ last.returned[1].result.difference_percent = 2500
  /\ last.returned[1].result.severity = "major"
  /\ ~last.returned[1].result.matches

\* ---------------------------------------------------------------------------
\* NameMatcher: advanced_name_matching.py
\* A name is a sequence of characters (one-character strings; the Devanagari
\* code points are written by their names).  None and '' are both << >>
\* ("name or ''" at the head of compare_names).
\* ---------------------------------------------------------------------------

MaxNameLen == 5

NoName == << >>

\* Characters of the script-2 (English) names: two letters, one of them also
\* in upper case, the blank and the full stop.
EnglishChars == {"m", "r", "R", " ", "."}

\* Characters of the script-1 (Hindi) names: DDA and CANDRA_O spell the title
\* Hindi 'Dr', RA is a letter, then the blank and the comma.
HindiChars == {"DDA", "CANDRA_O", "RA", " ", ","}

\* The entries of ENGLISH_TITLES / HINDI_TITLES that can be written with these
\* characters: 'mr' and the Hindi 'Dr'.
ENGLISH_TITLES == { <<"m", "r">> }

HINDI_TITLES == { <<"DDA", "CANDRA_O">> }

\* the punctuation class of the re.sub of normalize_hindi, restricted to the characters used
HindiPunctuation == {",", "."}

\* the characters kept by re.sub(r'[^a-z\s]', '', name)
EnglishKept == {"m", "r", " "}

\* str.lower() on the characters used
lower(name) == [i \in 1..Len(name) |-> IF name[i] = "R" THEN "r" ELSE name[i]]

\* str.split(): the maximal runs of non-blank characters
RECURSIVE split(_)
split(name) ==
  IF name = << >> THEN << >>
  ELSE IF name[1] = " " THEN split(Tail(name))
  ELSE LET k == CHOOSE k \in 1..Len(name) :
                  /\ \A j \in 1..k : name[j] # " "
                  /\ k = Len(name) \/ name[k + 1] = " "
       IN << SubSeq(name, 1, k) >> \o split(SubSeq(name, k + 1, Len(name)))

\* ' '.join(words)
RECURSIVE join(_)
join(words) ==
  IF words = << >> THEN << >>
  ELSE IF Len(words) = 1 THEN words[1]
  ELSE words[1] \o << " " >> \o join(Tail(words))

\* normalize_hindi: drop the words that are titles, replace punctuation by a
\* blank, collapse blanks.  (unicodedata.normalize('NFC') leaves every
\* character of HindiChars as it is.)
normalize_hindi(name) ==
  IF name = << >> THEN << >>
  ELSE LET words == SelectSeq(split(name), LAMBDA w : w \notin HINDI_TITLES)
           joined == join(words)
           spaced == [i \in 1..Len(joined) |-> IF joined[i] \in HindiPunctuation THEN " " ELSE joined[i]]
       IN join(split(spaced))

\* normalize_english: lower case, drop the words that are titles, delete every
\* character that is not a letter or a blank, collapse blanks.
normalize_english(name) ==
  IF name = << >> THEN << >>
  ELSE LET words == SelectSeq(split(lower(name)), LAMBDA w : w \notin ENGLISH_TITLES)
           kept == SelectSeq(join(words), LAMBDA ch : ch \in EnglishKept)
       IN join(split(kept))

\* generate_phonetic_key: none of the substitution patterns (ph, gh, ..., y, w)
\* and no vowel occurs in the characters used, so what remains is
\* re.sub(r'(.)\1+', r'\1', name): runs of one character collapse.
RECURSIVE generate_phonetic_key(_)
generate_phonetic_key(name) ==
  IF Len(name) < 2 THEN name
  ELSE IF name[1] = name[2] THEN generate_phonetic_key(Tail(name))
  ELSE << name[1] >> \o generate_phonetic_key(Tail(name))

\* length of a longest common subsequence
RECURSIVE LongestCommon(_, _)
LongestCommon(s1, s2) ==
  IF s1 = << >> \/ s2 = << >> THEN 0
  ELSE IF s1[1] = s2[1] THEN 1 + LongestCommon(Tail(s1), Tail(s2))
  ELSE Max(LongestCommon(Tail(s1), s2), LongestCommon(s1, Tail(s2)))

\* Levenshtein.ratio(s1, s2) * 100 in hundredths, rounded down:
\* (lensum - distance) / lensum with a substitution counted as 2, which is
\* 2 * LCS / lensum.
levenshtein_ratio(s1, s2) ==
  IF Len(s1) + Len(s2) = 0 THEN 10000
  ELSE (20000 * LongestCommon(s1, s2)) \div (Len(s1) + Len(s2))

\* One fuzzy strategy of compare_names: "if score > best_score" replaces the
\* best result so far.  evaluated collects the strategies that were computed.
Better(best, applies, strategy, score) ==
  IF ~applies THEN best
  ELSE IF score > best.similarity_score
       THEN [similarity_score |-> score, match_type |-> strategy,
             evaluated |-> best.evaluated \cup {strategy}]
       ELSE [best EXCEPT !.evaluated = @ \cup {strategy}]

\* compare_names: similarity_score in hundredths, match_type, confidence.
compare_names(name1_hindi, name1_english, name2_hindi, name2_english) ==
  LET h1 == normalize_hindi(name1_hindi)
      e1 == normalize_english(name1_english)
      h2 == normalize_hindi(name2_hindi)
      e2 == normalize_english(name2_english)
      b0 == [similarity_score |-> 0, match_type |-> "none", evaluated |-> {}]
      b2 == Better(b0, h1 # << >> /\ h2 # << >>, "hindi_fuzzy", levenshtein_ratio(h1, h2))
      b3 == Better(b2, e1 # << >> /\ e2 # << >>, "english_fuzzy", levenshtein_ratio(e1, e2))
      b4 == Better(b3, e1 # << >> /\ e2 # << >>, "phonetic",
                   levenshtein_ratio(generate_phonetic_key(e1), generate_phonetic_key(e2)))
      b5 == Better(b4, h1 # << >> /\ e2 # << >>, "cross_language",
                   levenshtein_ratio(generate_phonetic_key(h1), generate_phonetic_key(e2)))
      b6 == Better(b5, h2 # << >> /\ e1 # << >>, "cross_language",
                   levenshtein_ratio(generate_phonetic_key(h2), generate_phonetic_key(e1)))
  IN IF h1 # << >> /\ h2 # << >> /\ h1 = h2
     THEN [similarity_score |-> 10000, match_type |-> "exact_hindi", confidence |-> "high",
           evaluated |-> {}]
     ELSE IF e1 # << >> /\ e2 # << >> /\ e1 = e2
     THEN [similarity_score |-> 10000, match_type |-> "exact_english", confidence |-> "high",
           evaluated |-> {}]
     ELSE [similarity_score |-> b6.similarity_score, match_type |-> b6.match_type,
           confidence |-> IF b6.similarity_score >= 9000 THEN "high"
                          ELSE IF b6.similarity_score >= 7500 THEN "medium" ELSE "low",
           evaluated |-> b6.evaluated]

\* every name of at most MaxNameLen characters
NamesOver(chars) == UNION { [1..n -> chars] : n \in 0..MaxNameLen }

\* the second name of a comparison in the varied script
EnglishSeconds == { <<"r">>, <<"r", " ", "r">> }

HindiSeconds == { <<"RA">>, <<"RA", " ", "RA">> }

\* the names of the other script: both absent, or both present and different
OtherEnglish == { <<NoName, NoName>>, << <<"r">>, <<"m">> >> }

OtherHindi == { <<NoName, NoName>>, << <<"RA">>, <<"DDA">> >> }

\* One call of compare_names.
CompareNames(name1_hindi, name1_english, name2_hindi, name2_english) ==
  /\ Idle
  /\ last' = [NoLast EXCEPT !.op = "names",
                !.returned = << [name1_hindi |-> name1_hindi, name1_english |-> name1_english,
                                 name2_hindi |-> name2_hindi, name2_english |-> name2_english,
                                 match |-> compare_names(name1_hindi, name1_english,
                                                         name2_hindi, name2_english)] >>]
  /\ UNCHANGED << parcels, records, discrepancies, change_logs, runs >>

NextName ==
  \/ /\ Idle
     /\ \E h1 \in NamesOver(HindiChars), h2 \in HindiSeconds, e \in OtherEnglish :
           CompareNames(h1, e[1], h2, e[2])
  \/ /\ Idle
     /\ \E e1 \in NamesOver(EnglishChars), e2 \in EnglishSeconds, h \in OtherHindi :
           CompareNames(h[1], e1, h[2], e2)
  \/ CloseSession

NameSpec == InitScore /\ [][NextName]_vars

\* The words of a name that are left when punctuation, titles and (script 2)
\* letter case are disregarded: two names differ only in those and in the
\* amount of white space exactly when these words are the same.
HindiWords(name) ==
  SelectSeq(split(SelectSeq(name, LAMBDA ch : ch \notin HindiPunctuation)),
            LAMBDA w : w \notin HINDI_TITLES)

EnglishWords(name) ==
  SelectSeq(split(SelectSeq(lower(name), LAMBDA ch : ch \in EnglishKept)),
            LAMBDA w : w \notin ENGLISH_TITLES)

\* C25: compare_names returns 100 with an exact match type and high
\* confidence, and evaluates no fuzzy strategy, whenever the normalized Hindi
\* names are equal and non-empty or the normalized English names are equal and
\* non-empty; and names that differ only by listed titles, punctuation, white
\* space and (English) letter case score 100.
C25_ExactOnNormalized ==
  (last.op = "names") =>
     LET c == last.returned[1]
     IN /\ (\/ normalize_hindi(c.name1_hindi) # << >>
               /\ normalize_hindi(c.name1_hindi) = normalize_hindi(c.name2_hindi)
            \/ normalize_english(c.name1_english) # << >>
               /\ normalize_english(c.name1_english) = normalize_english(c.name2_english))
           => /\ c.match.similarity_score = 10000
              /\ c.match.match_type \in {"exact_hindi", "exact_english"}
              /\ c.match.confidence = "high"
              /\ c.match.evaluated = {}
        /\ (\/ HindiWords(c.name1_hindi) # << >>
               /\ HindiWords(c.name1_hindi) = HindiWords(c.name2_hindi)
            \/ EnglishWords(c.name1_english) # << >>
               /\ EnglishWords(c.name1_english) = EnglishWords(c.name2_english))
           => c.match.similarity_score = 10000

\* ---------------------------------------------------------------------------
\* Two transition requests served at the same time, each through its own
\* session (get_db gives every request a session of its own).  A request is
\* served in two steps: the read, the check and the assignments on the loaded
\* object, then the audit call and the commit.
\* ---------------------------------------------------------------------------

\* the discrepancy the requests are about, in any status the PATCH endpoint
\* can have left it in
RaceRows ==
  { [NewDiscrepancy(_check_parcel_enhanced(CandParcels[2], << >>)[1]) EXCEPT !.status = s] :
      s \in Statuses }

InitRace ==
  /\ parcels = FilterSeq(CandParcels, {2})
  /\ records = << >>
  /\ discrepancies \in { << row >> : row \in RaceRows }
  /\ change_logs = << >>
  /\ last = NoLast
  /\ runs = [w \in Workers |-> << >>]

\* transition_status up to the statement before the audit call: the query,
\* the two raises and the assignments on the loaded object
begin_transition(sess, discrepancy_id, new_status, user_name, user_role, remarks) ==
  IF discrepancy_id \notin 1..Len(sess.table)
  THEN [sess |-> sess, result |-> "not_found", old_status |-> NoneVal]
  ELSE
    LET old_status == sess.rows[discrepancy_id].status
    IN IF ~can_transition(old_status, new_status, user_role)
       THEN [sess |-> sess, result |-> "violation", old_status |-> old_status]
       ELSE
         LET s1 == [sess EXCEPT !.rows[discrepancy_id].status = new_status]
             s2 == IF new_status = "resolved"
                   THEN [s1 EXCEPT !.rows[discrepancy_id].resolved_at = "stamped",
                                   !.rows[discrepancy_id].resolved_by = user_name,
                                   !.rows[discrepancy_id].resolution_remarks =
                                       IF remarks # NoneVal THEN remarks ELSE @]
                   ELSE s1
         IN [sess |-> s2, result |-> "pending", old_status |-> old_status]

\* concurrent = another request for the same discrepancy has read it and has
\* not finished
BeginTransition(w, id, new_status, user_role) ==
  /\ runs[w] = << >>
  /\ LET r == begin_transition(WorkflowSession(discrepancies, change_logs),
                               id, new_status, UserName, user_role, NoneVal)
     IN runs' = [runs EXCEPT ![w] =
                   << [id |-> id, new_status |-> new_status, role |-> user_role,
                       old_status |-> r.old_status, sess |-> r.sess, result |-> r.result,
                       concurrent |-> \E o \in Workers \ {w} :
                                         /\ runs[o] # << >>
                                         /\ runs[o][1].result = "pending"
                                         /\ runs[o][1].id = id] >>]
  /\ UNCHANGED << parcels, records, discrepancies, change_logs, last >>

\* the rest of transition_status: log_discrepancy_status_change and
\* db.commit(), which writes the changed attributes of the loaded object and
\* the pending ChangeLog
FinishTransition(w) ==
  /\ runs[w] # << >>
  /\ runs[w][1].result = "pending"
  /\ LET run == runs[w][1]
         lg == log_discrepancy_status_change(run.sess, run.id, run.old_status, run.new_status,
                                             UserName, run.role, NoneVal)
     IN IF lg.raised
        THEN /\ runs' = [runs EXCEPT ![w][1].result = "TypeError"]
             /\ UNCHANGED << discrepancies, change_logs >>
        ELSE /\ runs' = [runs EXCEPT ![w][1].result = "ok"]
             /\ discrepancies' =
                  [discrepancies EXCEPT
                     ![run.id].status = lg.sess.rows[run.id].status,
                     ![run.id].resolved_at = lg.sess.rows[run.id].resolved_at,
                     ![run.id].resolved_by = lg.sess.rows[run.id].resolved_by,
                     ![run.id].resolution_remarks = lg.sess.rows[run.id].resolution_remarks]
             /\ change_logs' = change_logs \o lg.sess.pending_logs
  /\ UNCHANGED << parcels, records, last >>

\* the response of a finished request is sent and its session closed
EndTransition(w) ==
  /\ runs[w] # << >>
  /\ runs[w][1].result # "pending"
  /\ runs' = [runs EXCEPT ![w] = << >>]
  /\ UNCHANGED << parcels, records, discrepancies, change_logs, last >>

NextRace ==
  \/ \E w \in Workers, id \in IdsToTry, new_status \in Statuses, user_role \in Roles :
        BeginTransition(w, id, new_status, user_role)
  \/ \E w \in Workers : FinishTransition(w)
  \/ \E w \in Workers : EndTransition(w)

RaceSpec == InitRace /\ [][NextRace]_vars

\* a discrepancy as a serial execution of the state machine leaves it: its
\* status and the <<old, new>> pairs of its status_change entries
SerialApply(st, run) ==
  IF Permitted(st.status, run.new_status, run.role)
  THEN [status |-> run.new_status,
        entries |-> Append(st.entries, << st.status, run.new_status >>)]
  ELSE st

\* the committed status of a discrepancy and its status_change entries
Committed(id) ==
  LET mine == SelectSeq(change_logs,
                        LAMBDA e : e.entity_id = id /\ e.action = "status_change")
  IN [status |-> discrepancies[id].status,
      entries |-> [k \in 1..Len(mine) |-> << mine[k].old_values, mine[k].new_values >>]]

ScoreArea(computed_sqm, recorded_sqm) ==
  /\ Idle
  /\ last' = [NoLast EXCEPT !.op = "area_score",
                !.returned = << [computed_sqm |-> computed_sqm, recorded_sqm |-> recorded_sqm,
                                 area_score |-> calculate_area_score(computed_sqm, recorded_sqm),
                                 comparison |-> AreaComparisonResult(computed_sqm, recorded_sqm),
                                 verdicts |-> _check_area_enhanced(
                                                [CandParcels[1] EXCEPT !.computed_area_sqm = computed_sqm],
                                                [CandRecords[1] EXCEPT !.recorded_area_sqm = recorded_sqm])] >>]
  /\ UNCHANGED << parcels, records, discrepancies, change_logs, runs >>

NextBand ==
  \/ /\ Idle
     /\ \E computed_sqm \in {NoNum, 0} \cup (60..MaxArea), recorded_sqm \in {NoNum, 0, 80, 100} :
           ScoreArea(computed_sqm, recorded_sqm)
  \/ CloseSession

BandSpec == InitScore /\ [][NextBand]_vars

\* C28: for one pair of areas (both present, recorded above zero) the scorer
\* adds the minor, major or critical area weight exactly when compare_areas
\* classifies the difference as minor, major or critical, and every
\* area_mismatch verdict of the detection has an area component above zero.
C28_ScorerUsesComparatorBands ==
  (last.op = "area_score") =>
     LET c == last.returned[1]
     IN /\ (c.computed_sqm > 0 /\ c.recorded_sqm > 0) =>
             /\ (c.area_score = SCORING_WEIGHTS.area_minor_mismatch)
                   <=> (c.comparison.severity = "minor")
             /\ (c.area_score = SCORING_WEIGHTS.area_major_mismatch)
                   <=> (c.comparison.severity = "major")
             /\ (c.area_score = SCORING_WEIGHTS.area_critical_mismatch)
                   <=> (c.comparison.severity = "critical")
        /\ (c.verdicts # << >>) => c.area_score > 0

\* ---------------------------------------------------------------------------
\* The status history of a discrepancy in the ledger
\* ---------------------------------------------------------------------------

\* the status_change entries of a discrepancy, in insertion order
StatusChanges(logs, id) ==
  SelectSeq(logs, LAMBDA e : e.entity_id = id /\ e.action = "status_change")

\* the entries lead from open to the current status, each starting where the
\* one before it ended; without entries the discrepancy is still open
IsChain(entries, status) ==
  IF entries = << >> THEN status = "open"
  ELSE /\ entries[1].old_values = "open"
       /\ \A k \in 2..Len(entries) : entries[k].old_values = entries[k - 1].new_values
       /\ entries[Len(entries)].new_values = status

C30_DetectionFrame ==
  [][ last'.op = "upsert" =>
        LET v == last'.returned[1]
        IN /\ Len(discrepancies') >= Len(discrepancies)
           /\ \A i \in 1..Len(discrepancies) :
                 /\ discrepancies'[i].status = discrepancies[i].status
                 /\ discrepancies'[i].plot_id = discrepancies[i].plot_id
                 /\ discrepancies'[i].discrepancy_type = discrepancies[i].discrepancy_type
                 /\ discrepancies'[i].parcel_id = discrepancies[i].parcel_id
                 /\ discrepancies'[i].record_id = discrepancies[i].record_id
                 /\ discrepancies'[i].resolved_by = discrepancies[i].resolved_by
                 /\ discrepancies'[i].resolved_at = discrepancies[i].resolved_at
                 /\ discrepancies'[i].resolution_remarks = discrepancies[i].resolution_remarks
                 /\ discrepancies'[i] =
                      [discrepancies[i] EXCEPT !.severity = discrepancies'[i].severity,
                                               !.score = discrepancies'[i].score,
                                               !.details = discrepancies'[i].details]
                 /\ (i \notin ExistingMatches(discrepancies, v))
                      => discrepancies'[i] = discrepancies[i]
           /\ last'.resolved = 0 ]_vars

\* an entry under review was rewritten in place with the verdict's score
\* while an open entry of the other type, for which the run had no verdict,
\* stayed as it was
C30_Witness ==
  /\ last.op = "upsert"
  /\ last.new = 0 /\ last.updated = 1
  /\ \E i, j \in 1..Len(discrepancies) :
        /\ discrepancies[i].plot_id = last.returned[1].plot_id
        /\ discrepancies[i].discrepancy_type = last.returned[1].type
        /\ discrepancies[i].status = "under_review"
        /\ discrepancies[i].score = last.returned[1].score
        /\ discrepancies[j].discrepancy_type # last.returned[1].type
        /\ discrepancies[j].status = "open"

====
